---- MODULE Spec2Model ----
(***************************************************************************)
(* SimpleFormBuilder: the calculation graph (add_param, add_equation,      *)
(* add_check), the calculation engine (evaluate, lambdify_equation and the *)
(* wrapper it returns), the expression compiler (_compile_equation) and   *)
(* the LaTeX formatter (report) with its template library, modelled from  *)
(* src/simpleformbuilder/builder.py, utils.py and templates.py.            *)
(*                                                                         *)
(* Numbers are exact rationals n/d.  A value is a record                   *)
(*   [kind, n, d, unit, info, elems]                                       *)
(* kind "num" is a bare Python number, "qty" a pint.Quantity, "unit" a     *)
(* pint.Unit, "bool" a boolean, "none" Python's None, "arr" a numpy array  *)
(* of the elements elems; any other kind is the class name of a raised     *)
(* exception, info carrying what its message names.  Units are exponent    *)
(* vectors over the base units m and cm.                                   *)
(***************************************************************************)
EXTENDS Integers, Sequences, FiniteSets, TLC

\* Bound of the model: the number of steps a graph may hold.
MaxSteps == 3

\* max_depth of the dependency expansion loop.
max_depth == 20

VARIABLES
    params,   \* CalculationGraph.params : name -> value (the symbol table)
    symbols,  \* CalculationGraph.symbols: name -> display symbol
    steps,    \* CalculationGraph.steps  : sequence of step records
    fn,       \* the closure last returned by lambdify_equation (or NoFn)
    template, \* LaTeXFormatter.template: the template of the formatter
    out       \* outcome of the last operation (return value or exception)

vars == <<params, symbols, steps, fn, template, out>>

\* the one element of a singleton; Force({ e(r) : r \in {v} }) is e(v) with
\* v evaluated once
Force(S) == CHOOSE y \in S : TRUE

----------------------------------------------------------------------------
(* Exact arithmetic on rationals n/d *)

AbsInt(x) == IF x < 0 THEN -x ELSE x

RECURSIVE Gcd(_, _)
Gcd(a, b) == IF b = 0 THEN a ELSE Gcd(b, a % b)

\* n/d in lowest terms with a positive denominator (d # 0)
Norm(n, d) ==
    LET g == Gcd(AbsInt(n), AbsInt(d))
        s == IF d < 0 THEN -1 ELSE 1
    IN  [n |-> (s * n) \div g, d |-> (s * d) \div g]

RAdd(a, b) == Norm(a.n * b.d + b.n * a.d, a.d * b.d)
RMul(a, b) == Norm(a.n * b.n, a.d * b.d)
RDiv(a, b) == Norm(a.n * b.d, a.d * b.n)
RGt(a, b)  == a.n * b.d > b.n * a.d
RIsZero(a) == a.n = 0

RECURSIVE PowInt(_, _)
PowInt(b, k) == IF k = 0 THEN 1 ELSE b * PowInt(b, k - 1)

----------------------------------------------------------------------------
(* The unit registry (pint.UnitRegistry) as the engine uses it *)

NoUnits == [m |-> 0, cm |-> 0]
UnitM   == [m |-> 1, cm |-> 0]
UnitCm  == [m |-> 0, cm |-> 1]

\* the names the registry knows, and the unit each denotes
KnownUnits == {"m", "cm"}
UnitNamed(unit_name) == IF unit_name = "m" THEN UnitM ELSE UnitCm

UMul(u, v) == [m |-> u.m + v.m, cm |-> u.cm + v.cm]
UDiv(u, v) == [m |-> u.m - v.m, cm |-> u.cm - v.cm]

\* dimensionality: the exponent of [length]
Dim(u) == u.m + u.cm

\* factor by which a magnitude in unit u is multiplied to give unit v
\* (1 m = 100 cm), for units of the same dimensionality
Factor(u, v) ==
    LET k == v.cm - u.cm
    IN  IF k >= 0 THEN [n |-> PowInt(100, k), d |-> 1]
        ELSE [n |-> 1, d |-> PowInt(100, -k)]

----------------------------------------------------------------------------
(* Values *)

Val(kind, r, unit, info) ==
    [kind |-> kind, n |-> r.n, d |-> r.d, unit |-> unit, info |-> info,
     elems |-> <<>>]

Num(n, d)    == Val("num", Norm(n, d), NoUnits, "")
Qty(n, d, u) == Val("qty", Norm(n, d), u, "")
UnitVal(u)   == Val("unit", [n |-> 1, d |-> 1], u, "")
Bool(b)      == Val("bool", [n |-> IF b THEN 1 ELSE 0, d |-> 1], NoUnits, "")
None         == Val("none", [n |-> 0, d |-> 1], NoUnits, "")
Raise(cls, info) == Val(cls, [n |-> 0, d |-> 1], NoUnits, info)
\* numpy.ndarray of one dimension: elems are its elements
Arr(es) ==
    [Val("arr", [n |-> 0, d |-> 1], NoUnits, "") EXCEPT !.elems = es]

Mag(v) == [n |-> v.n, d |-> v.d]

IsRaised(v) ==
    v.kind \notin {"num", "qty", "unit", "bool", "none", "str", "arr"}

\* isinstance(v, pint.Quantity)
IsQuantity(v) == v.kind = "qty"

\* Quantity.to(unit)
QTo(v, unit) ==
    IF Dim(v.unit) # Dim(unit) THEN Raise("DimensionalityError", "")
    ELSE Val("qty", RMul(Mag(v), Factor(v.unit, unit)), unit, "")

\* Quantity.dimensionless
QDimensionless(v) == Dim(v.unit) = 0

----------------------------------------------------------------------------
(* What the lambdified numeric function computes: Python and pint         *)
(* arithmetic on bare numbers, quantities and units.  An operand that is  *)
(* a raised exception propagates.                                          *)

IsQLike(v) == v.kind \in {"qty", "unit"}

PyAdd(a, b) ==
    IF IsRaised(a) THEN a
    ELSE IF IsRaised(b) THEN b
    ELSE IF a.kind = "num" /\ b.kind = "num"
         THEN Val("num", RAdd(Mag(a), Mag(b)), NoUnits, "")
    ELSE IF a.kind = "qty" /\ b.kind = "qty"
         THEN IF Dim(a.unit) # Dim(b.unit)
              THEN Raise("DimensionalityError", "")
              ELSE Val("qty", RAdd(Mag(a), Mag(QTo(b, a.unit))), a.unit, "")
    ELSE IF a.kind = "qty" /\ b.kind = "num"
         THEN IF RIsZero(Mag(b)) THEN a
              ELSE IF QDimensionless(a)
                   THEN Val("qty", RAdd(Mag(QTo(a, NoUnits)), Mag(b)), NoUnits, "")
              ELSE Raise("DimensionalityError", "")
    ELSE IF a.kind = "num" /\ b.kind = "qty"
         THEN IF RIsZero(Mag(a)) THEN b
              ELSE IF QDimensionless(b)
                   THEN Val("qty", RAdd(Mag(QTo(b, NoUnits)), Mag(a)), NoUnits, "")
              ELSE Raise("DimensionalityError", "")
    ELSE Raise("TypeError", "")

PyMul(a, b) ==
    IF IsRaised(a) THEN a
    ELSE IF IsRaised(b) THEN b
    ELSE IF a.kind = "num" /\ b.kind = "num"
         THEN Val("num", RMul(Mag(a), Mag(b)), NoUnits, "")
    ELSE IF (IsQLike(a) \/ a.kind = "num") /\ (IsQLike(b) \/ b.kind = "num")
         THEN Val(IF a.kind = "unit" /\ b.kind = "unit" THEN "unit" ELSE "qty",
                  RMul(Mag(a), Mag(b)), UMul(a.unit, b.unit), "")
    ELSE Raise("TypeError", "")

PyDiv(a, b) ==
    IF IsRaised(a) THEN a
    ELSE IF IsRaised(b) THEN b
    ELSE IF ~((IsQLike(a) \/ a.kind = "num") /\ (IsQLike(b) \/ b.kind = "num"))
         THEN Raise("TypeError", "")
    ELSE IF RIsZero(Mag(b)) THEN Raise("ZeroDivisionError", "")
    ELSE IF a.kind = "num" /\ b.kind = "num"
         THEN Val("num", RDiv(Mag(a), Mag(b)), NoUnits, "")
    ELSE Val(IF a.kind = "unit" /\ b.kind = "unit" THEN "unit" ELSE "qty",
             RDiv(Mag(a), Mag(b)), UDiv(a.unit, b.unit), "")

PyGt(a, b) ==
    IF IsRaised(a) THEN a
    ELSE IF IsRaised(b) THEN b
    ELSE IF a.kind = "num" /\ b.kind = "num" THEN Bool(RGt(Mag(a), Mag(b)))
    ELSE IF a.kind = "qty" /\ b.kind = "qty"
         THEN IF Dim(a.unit) # Dim(b.unit)
              THEN Raise("DimensionalityError", "")
              ELSE Bool(RGt(Mag(a), Mag(QTo(b, a.unit))))
    ELSE IF a.kind = "qty" /\ b.kind = "num"
         THEN IF QDimensionless(a) THEN Bool(RGt(Mag(QTo(a, NoUnits)), Mag(b)))
              ELSE IF RIsZero(Mag(b)) THEN Bool(RGt(Mag(a), Mag(b)))
              ELSE Raise("ValueError", "")
    ELSE IF a.kind = "num" /\ b.kind = "qty"
         THEN IF QDimensionless(b) THEN Bool(RGt(Mag(a), Mag(QTo(b, NoUnits))))
              ELSE IF RIsZero(Mag(a)) THEN Bool(RGt(Mag(a), Mag(b)))
              ELSE Raise("ValueError", "")
    ELSE Raise("TypeError", "")

\* bool(result)
PyBool(v) == v.n # 0

\* the first exception among the elements computed, None when none raised
FirstRaisedIn(es) ==
    IF \E i \in 1..Len(es) : IsRaised(es[i])
    THEN es[CHOOSE i \in 1..Len(es) :
               IsRaised(es[i]) /\ \A j \in 1..(i - 1) : ~IsRaised(es[j])]
    ELSE None

\* numpy.all(a)
PyAll(a) ==
    IF IsRaised(a) THEN a
    ELSE IF a.kind = "arr"
         THEN Bool(\A i \in 1..Len(a.elems) : PyBool(a.elems[i]))
    ELSE Bool(PyBool(a))

\* a binary operator of the numeric function on scalars
ApplyScalar(op, a, b) ==
    CASE op = "add" -> PyAdd(a, b)
      [] op = "mul" -> PyMul(a, b)
      [] op = "div" -> PyDiv(a, b)
      [] op = "gt"  -> PyGt(a, b)

\* element i of an operand under numpy broadcasting: a scalar is repeated
Element(a, i) == IF a.kind = "arr" THEN a.elems[i] ELSE a

ArrLen(a, b) == IF a.kind = "arr" THEN Len(a.elems) ELSE Len(b.elems)

\* a binary operator with an ndarray operand: element by element; arrays
\* of different lengths do not broadcast
Broadcast(op, a, b) ==
    IF IsRaised(a) THEN a
    ELSE IF IsRaised(b) THEN b
    ELSE IF a.kind = "arr" /\ b.kind = "arr" /\ Len(a.elems) # Len(b.elems)
         THEN Raise("ValueError", "")
    ELSE Force({ IF FirstRaisedIn(es) # None THEN FirstRaisedIn(es)
                 ELSE Arr(es) :
                 es \in {[i \in 1..ArrLen(a, b) |->
                           ApplyScalar(op, Element(a, i), Element(b, i))]} })

----------------------------------------------------------------------------
(* Expressions.  An expression string is parsed by sympy.sympify into a   *)
(* tree; the strings the model declares and their trees are listed here.  *)
(* process_expression_string rewrites u.<name> to the symbol UNIT_<name>   *)
(* before parsing.  A name sympify does not know becomes a Symbol, so      *)
(* only a malformed string fails to parse.                                 *)

Sym(name)     == [op |-> "sym", name |-> name]
Lit(k)        == [op |-> "num", val |-> k]
Bin(op, l, r) == [op |-> op, l |-> l, r |-> r]
\* a function applied to one argument, all(arg), is the node Bin("all", arg,
\* Lit(0)): r is not used
SympifyError  == [op |-> "SympifyError"]

\* the names of a chain of equations and the expression of each, which
\* refers to the next name
ChainNames ==
    <<
       "e1", "e2", "e3", "e4", "e5", "e6", "e7", "e8", "e9", "e10", "e11",
       "e12", "e13", "e14", "e15", "e16", "e17", "e18", "e19", "e20",
       "e21", "e22", "e23", "e24" >>

ChainExprs ==
    <<
       "e2 + 1", "e3 + 1", "e4 + 1", "e5 + 1", "e6 + 1", "e7 + 1",
       "e8 + 1", "e9 + 1", "e10 + 1", "e11 + 1", "e12 + 1", "e13 + 1",
       "e14 + 1", "e15 + 1", "e16 + 1", "e17 + 1", "e18 + 1", "e19 + 1",
       "e20 + 1", "e21 + 1", "e22 + 1", "e23 + 1", "e24 + 1", "e25 + 1" >>

\* the position of a chain expression among ChainExprs
ChainIndex(raw_expr) ==
    CHOOSE i \in DOMAIN ChainExprs : ChainExprs[i] = raw_expr

\* re.sub(r"\bu\.([a-zA-Z_]\w*)", "UNIT_\1", raw_expr), then sympify
process_and_sympify(raw_expr) ==
    CASE raw_expr = "x + 2"    -> Bin("add", Sym("x"), Lit(2))
      [] raw_expr = "y * 3"    -> Bin("mul", Sym("y"), Lit(3))
      [] raw_expr = "10 / x"   -> Bin("div", Lit(10), Sym("x"))
      [] raw_expr = "y / x"    -> Bin("div", Sym("y"), Sym("x"))
      [] raw_expr = "2 * u.cm" -> Bin("mul", Lit(2), Sym("UNIT_cm"))
      [] raw_expr = "z + 1"    -> Bin("add", Sym("z"), Lit(1))
      [] raw_expr = "x * u.cm" -> Bin("mul", Sym("x"), Sym("UNIT_cm"))
      [] raw_expr = "y > 0"    -> Bin("gt", Sym("y"), Lit(0))
      [] raw_expr = "x > y"    -> Bin("gt", Sym("x"), Sym("y"))
      [] raw_expr = "all(x > y)" -> Bin("all", Bin("gt", Sym("x"), Sym("y")), Lit(0))
      [] \E i \in DOMAIN ChainExprs : ChainExprs[i] = raw_expr ->
             Bin("add",
                 Sym(IF ChainIndex(raw_expr) < Len(ChainNames)
                     THEN ChainNames[ChainIndex(raw_expr) + 1]
                     ELSE "e25"),
                 Lit(1))
      [] OTHER                 -> SympifyError

ParseFails(ast) == ast.op = "SympifyError"

\* sym_expr.free_symbols
RECURSIVE free_symbols(_)
free_symbols(ast) ==
    IF ast.op = "sym" THEN {ast.name}
    ELSE IF ast.op = "num" THEN {}
    ELSE free_symbols(ast.l) \cup free_symbols(ast.r)

\* the automatic evaluation sympy applies to the node it rebuilds: numeric
\* terms and factors are collected and a numeric factor is distributed
\* over a sum: (e + a) + b is e + (a + b), (e * a) * b is e * (a * b),
\* (e + a) * k is e * k + a * k
collect(ast) ==
    IF ast.op \notin {"add", "mul"} THEN ast
    ELSE IF ast.r.op # "num" \/ ast.l.op \notin {"add", "mul"} THEN ast
    ELSE IF ast.l.r.op # "num" THEN ast
    ELSE IF ast.op = "add" /\ ast.l.op = "add"
         THEN Bin("add", ast.l.l, Lit(ast.l.r.val + ast.r.val))
    ELSE IF ast.op = "mul" /\ ast.l.op = "mul"
         THEN Bin("mul", ast.l.l, Lit(ast.l.r.val * ast.r.val))
    ELSE IF ast.op = "mul" /\ ast.l.op = "add"
         THEN Bin("add", Bin("mul", ast.l.l, ast.r), Lit(ast.l.r.val * ast.r.val))
    ELSE ast

\* sym_expr.subs(subs_dict): subs_dict is a function name -> tree
RECURSIVE subs(_, _)
subs(ast, subs_dict) ==
    IF ast.op = "sym"
    THEN IF ast.name \in DOMAIN subs_dict THEN subs_dict[ast.name] ELSE ast
    ELSE IF ast.op = "num" THEN ast
    ELSE collect([ast EXCEPT !.l = subs(ast.l, subs_dict),
                             !.r = subs(ast.r, subs_dict)])

\* the order of str() on the symbol names that occur (ASCII order)
SymOrder == <<"UNIT_cm", "UNIT_m", "x", "y", "z">>

\* sorted(list(sym_expr.free_symbols), key=lambda s: str(s))
sorted_names(S) == SelectSeq(SymOrder, LAMBDA s : s \in S)

\* the numeric function on an environment name -> value
RECURSIVE EvalTree(_, _)
EvalTree(ast, env) ==
    IF ast.op = "sym" THEN env[ast.name]
    ELSE IF ast.op = "num" THEN Num(ast.val, 1)
    ELSE LET a == EvalTree(ast.l, env)
             b == EvalTree(ast.r, env)
         IN  IF ast.op = "all" THEN PyAll(a)
             ELSE IF a.kind = "arr" \/ b.kind = "arr"
                  THEN Broadcast(ast.op, a, b)
             ELSE ApplyScalar(ast.op, a, b)

\* a call that binds the formals to the arguments in reverse position
call_compiled_reversed(compiled_func, args) ==
    LET formals == compiled_func.formals
        env == [s \in {formals[i] : i \in 1..Len(formals)} |->
                   args[Len(formals) + 1
                        - (CHOOSE i \in 1..Len(formals) : formals[i] = s)]]
    IN  EvalTree(compiled_func.expr, env)

\* compiled_func(*args): sympy.lambdify(args_syms, sym_expr) applied to
\* positional arguments; formal i is bound to args[i]
call_compiled(compiled_func, args) ==
    LET formals == compiled_func.formals
        env == [s \in {formals[i] : i \in 1..Len(formals)} |->
                   args[CHOOSE i \in 1..Len(formals) : formals[i] = s]]
    IN  EvalTree(compiled_func.expr, env)

----------------------------------------------------------------------------
(* Names and expression strings as the validation code reads them: the    *)
(* characters of every string the model passes in.                         *)

Chars(s) ==
    CASE s = "x"        -> <<"x">>
      [] s = "y"        -> <<"y">>
      [] s = "z"        -> <<"z">>
      [] s = "Check"    -> <<"C", "h", "e", "c", "k">>
      [] s = "2x"       -> <<"2", "x">>
      [] s = "lambda"   -> <<"l", "a", "m", "b", "d", "a">>
      [] s = "x + 2"    -> <<"x", " ", "+", " ", "2">>
      [] s = "y * 3"    -> <<"y", " ", "*", " ", "3">>
      [] s = "10 / x"   -> <<"1", "0", " ", "/", " ", "x">>
      [] s = "y / x"    -> <<"y", " ", "/", " ", "x">>
      [] s = "z + 1"    -> <<"z", " ", "+", " ", "1">>
      [] s = "x * u.cm" -> <<"x", " ", "*", " ", "u", ".", "c", "m">>
      [] s = "2 * u.cm" -> <<"2", " ", "*", " ", "u", ".", "c", "m">>
      [] s = "y > 0"    -> <<"y", " ", ">", " ", "0">>
      [] s = "x > y"    -> <<"x", " ", ">", " ", "y">>
      [] s = "all(x > y)" ->
             <<"a", "l", "l", "(", "x", " ", ">", " ", "y", ")">>
      [] s = "x +"      -> <<"x", " ", "+">>
      [] s = "eval(x)"  -> <<"e", "v", "a", "l", "(", "x", ")">>
      [] s = "x__y"     -> <<"x", "_", "_", "y">>

Letters ==
    {"a", "b", "c", "d", "e", "f", "g", "h", "i", "j", "k", "l", "m", "n",
     "o", "p", "q", "r", "s", "t", "u", "v", "w", "x", "y", "z", "C", "_"}
Digits == {"0", "1", "2", "3", "4", "5", "6", "7", "8", "9"}
WordChars == Letters \cup Digits

\* str.isidentifier()
isidentifier(name) ==
    LET cs == Chars(name)
    IN  /\ Len(cs) > 0
        /\ cs[1] \in Letters
        /\ \A i \in 2..Len(cs) : cs[i] \in WordChars

forbidden ==
    { <<"i", "m", "p", "o", "r", "t">>, <<"l", "a", "m", "b", "d", "a">>,
      <<"o", "p", "e", "n">>, <<"e", "v", "a", "l">>, <<"e", "x", "e", "c">>,
      <<"c", "o", "m", "p", "i", "l", "e">>, <<"i", "n", "p", "u", "t">>,
      <<"s", "y", "s">>, <<"o", "s">> }

\* w occurs in cs at position i
OccursAt(cs, w, i) ==
    /\ i + Len(w) - 1 <= Len(cs)
    /\ \A k \in 1..Len(w) : cs[i + k - 1] = w[k]

\* a search for the forbidden words as plain substrings, without the \b
HasForbiddenSubstring(cs) ==
    \E w \in forbidden : \E i \in 1..Len(cs) : OccursAt(cs, w, i)

\* re.search(r"\b(" + "|".join(forbidden) + r")\b", expr)
HasForbiddenWord(cs) ==
    \E w \in forbidden : \E i \in 1..Len(cs) :
        /\ OccursAt(cs, w, i)
        /\ (i = 1 \/ cs[i - 1] \notin WordChars)
        /\ (i + Len(w) > Len(cs) \/ cs[i + Len(w)] \notin WordChars)

\* the two tests security_check makes on the characters of expr: "" when
\* both pass, else the message of the ValueError
check_expr(cs) ==
    IF \E i \in 1..Len(cs) : OccursAt(cs, <<"_", "_">>, i)
    THEN "contains forbidden substring '__'"
    ELSE IF HasForbiddenWord(cs) THEN "contains forbidden keywords"
    ELSE ""

\* security_check(name, expr): "" when it returns, else what it raises
security_check(name, expr) ==
    IF ~isidentifier(name) THEN "ValueError"
    ELSE IF check_expr(Chars(expr)) # "" THEN "ValueError"
    ELSE ""

\* CalculationGraph._validate_expression(name, expr)
validate_expression(name, expr) ==
    IF ~isidentifier(name) THEN "ValueError"
    ELSE security_check(name, expr)

----------------------------------------------------------------------------
(* Steps *)

NoneUnit == "None"
NotCompiled == [expr |-> [op |-> "none"], formals |-> <<>>]

ParamStep(name, symbol, value, hidden) ==
    [type |-> "param", name |-> name, symbol |-> symbol, value |-> value,
     hidden |-> hidden, desc |-> "", expr |-> "", unit |-> NoneUnit, compiled_func |-> NotCompiled,
     args_names |-> <<>>, result |-> None]

EqStep(name, symbol, expr, unit, hidden) ==
    [type |-> "eq", name |-> name, symbol |-> symbol, value |-> None,
     hidden |-> hidden, desc |-> "", expr |-> expr, unit |-> unit, compiled_func |-> NotCompiled,
     args_names |-> <<>>, result |-> None]

CheckStep(name, expr, desc) ==
    [type |-> "check", name |-> name, symbol |-> "", value |-> None,
     hidden |-> FALSE, desc |-> desc, expr |-> expr, unit |-> NoneUnit, compiled_func |-> NotCompiled,
     args_names |-> <<>>, result |-> None]

\* d[k] = v on a dict represented as a function
DictSet(d, k, v) == [n \in DOMAIN d \cup {k} |-> IF n = k THEN v ELSE d[n]]

\* next((s for s in graph.steps if s.get("name") == sym_str), None):
\* the index of the first step of that name, 0 for None
FirstStepNamed(graph_steps, sym_str) ==
    IF \E i \in 1..Len(graph_steps) : graph_steps[i].name = sym_str
    THEN CHOOSE i \in 1..Len(graph_steps) :
            /\ graph_steps[i].name = sym_str
            /\ \A j \in 1..(i - 1) : graph_steps[j].name # sym_str
    ELSE 0

----------------------------------------------------------------------------
(* CalculationEngine._compile_equation *)

\* the free symbols that the expansion loop substitutes in one round:
\* those whose first step of that name is an equation
EquationSyms(sym_expr, graph_steps) ==
    { s \in free_symbols(sym_expr) :
        LET i == FirstStepNamed(graph_steps, s)
        IN  i # 0 /\ graph_steps[i].type = "eq" }

\* a loop condition that lets the loop run past max_depth
loop_continues_past(current_depth) == current_depth < max_depth + 5

\* while current_depth < max_depth
loop_continues(current_depth) == current_depth < max_depth

\* the while loop: [expr, depth, raised]
RECURSIVE expand_loop(_, _, _)
expand_loop(sym_expr, current_depth, graph_steps) ==
    IF ~loop_continues(current_depth)
    THEN [expr |-> sym_expr, depth |-> current_depth, raised |-> ""]
    ELSE Force({
         IF \E s \in DOMAIN subs_dict : ParseFails(subs_dict[s])
         THEN [expr |-> sym_expr, depth |-> current_depth,
               raised |-> "SympifyError"]
         ELSE IF DOMAIN subs_dict = {}
         THEN [expr |-> sym_expr, depth |-> current_depth, raised |-> ""]
         ELSE Force({ expand_loop(e, current_depth + 1, graph_steps) :
                      e \in {subs(sym_expr, subs_dict)} }) :
         subs_dict \in {[s \in EquationSyms(sym_expr, graph_steps) |->
                           process_and_sympify(
                               graph_steps[FirstStepNamed(graph_steps, s)].expr)]} })

\* except Exception as e: raise ValueError(...): the class the caller sees
compile_error_class(inner) == "ValueError"

\* the except clause: [raised, cause, compiled_func, args_names]
CompileRaised(inner) ==
    [raised |-> compile_error_class(inner), cause |-> inner,
     compiled_func |-> NotCompiled, args_names |-> <<>>]

\* Compilation avec lambdify: args_syms, args_names, compiled_func
CompileOk(sym_expr) ==
    Force({ [raised |-> "", cause |-> "",
             compiled_func |-> [expr |-> sym_expr, formals |-> args_syms],
             args_names |-> args_syms] :
            args_syms \in {sorted_names(free_symbols(sym_expr))} })

\* a depth test that never fires
depth_never_exceeded(current_depth) == FALSE

\* the depth test after the loop
depth_exceeded(current_depth) == current_depth = max_depth

\* _compile_equation(name, expr, graph, expand):
\* [raised, cause, compiled_func, args_names]; raised = "" when it returns,
\* cause the class of the exception the except clause caught
_compile_equation(name, expr, graph_steps, expand) ==
    Force({
        IF ParseFails(parsed) THEN CompileRaised("SympifyError")
        ELSE IF ~expand THEN CompileOk(parsed)
        ELSE Force({ IF e.raised # "" THEN CompileRaised(e.raised)
                     ELSE IF depth_exceeded(e.depth)
                          THEN CompileRaised("RecursionError")
                     ELSE CompileOk(e.expr) :
                     e \in {expand_loop(parsed, 0, graph_steps)} }) :
        parsed \in {process_and_sympify(expr)} })

----------------------------------------------------------------------------
(* CalculationEngine.evaluate *)

\* arg_name.startswith("UNIT_") and arg_name[5:]
IsUnitPlaceholder(arg_name) == arg_name \in {"UNIT_m", "UNIT_cm"}
UnitNameOf(arg_name) == IF arg_name = "UNIT_m" THEN "m" ELSE "cm"

\* the unit lookup shared by get_arg_value and wrapper
resolve_unit(arg_name) ==
    IF UnitNameOf(arg_name) \in KnownUnits
    THEN UnitVal(UnitNamed(UnitNameOf(arg_name)))
    ELSE Raise("ValueError", UnitNameOf(arg_name))

\* evaluate.get_arg_value with a default in place of the KeyError
get_arg_value_defaulting(arg_name, graph_params) ==
    IF IsUnitPlaceholder(arg_name) THEN resolve_unit(arg_name)
    ELSE IF arg_name \in DOMAIN graph_params THEN graph_params[arg_name]
    ELSE Num(0, 1)

\* evaluate.get_arg_value(arg_name)
get_arg_value(arg_name, graph_params) ==
    IF IsUnitPlaceholder(arg_name) THEN resolve_unit(arg_name)
    ELSE IF arg_name \in DOMAIN graph_params THEN graph_params[arg_name]
    ELSE Raise("KeyError", arg_name)

\* a list built element by element, each of which may raise: the first
\* exception, None when there is none
FirstRaised(args) ==
    IF \E i \in 1..Len(args) : IsRaised(args[i])
    THEN args[CHOOSE i \in 1..Len(args) :
                 /\ IsRaised(args[i])
                 /\ \A j \in 1..(i - 1) : ~IsRaised(args[j])]
    ELSE None

\* compiled_func(*args) once args is built
call_with(compiled_func, args) ==
    Force({ IF raised # None THEN raised
            ELSE call_compiled(compiled_func, args) :
            raised \in {FirstRaised(args)} })

\* _evaluate_raw_expression(step, graph, get_arg_value):
\* [step, result], the step as mutated, result a value or what was raised
_evaluate_raw_expression(step, graph_steps, graph_params) ==
    Force({
        IF c.raised # ""
        THEN [step |-> step, result |-> Raise(c.raised, c.cause)]
        ELSE Force({ [step |-> [step EXCEPT !.compiled_func = c.compiled_func,
                                            !.args_names = c.args_names],
                      result |-> call_with(c.compiled_func, args)] :
                     args \in {[i \in 1..Len(c.args_names) |->
                                 get_arg_value(c.args_names[i], graph_params)]} }) :
        c \in {IF step.compiled_func = NotCompiled
               THEN _compile_equation(step.name, step.expr, graph_steps, FALSE)
               ELSE [raised |-> "", cause |-> "",
                     compiled_func |-> step.compiled_func,
                     args_names |-> step.args_names]} })

\* a target-unit rule that wraps bare numbers but leaves quantities in
\* the unit they have
evaluate_convert_keep(result, unit) ==
    IF unit # NoneUnit
    THEN IF IsQuantity(result)
         THEN IF Dim(result.unit) # Dim(UnitNamed(unit))
              THEN Raise("DimensionalityError", "")
              ELSE result
         ELSE Val("qty", Mag(result), UnitNamed(unit), "")
    ELSE result

\* the target-unit rule of evaluate (conversion d'unite)
evaluate_convert(result, unit) ==
    IF unit # NoneUnit
    THEN IF IsQuantity(result) THEN QTo(result, UnitNamed(unit))
         ELSE Val("qty", Mag(result), UnitNamed(unit), "")
    ELSE result

\* str(e) of an exception e caught by evaluate, as the set of the names and
\* expressions it quotes: _compile_equation quotes the expression and the
\* step name, get_arg_value the missing variable or the unknown unit
exception_text(step, e) ==
    IF step.compiled_func = NotCompiled THEN {step.expr, step.name}
    ELSE IF e.kind \in {"KeyError", "ValueError"} THEN {e.info}
    ELSE {}

\* what the message of the error raised for an equation step quotes
equation_message(step, e) ==
    IF e.kind = "ZeroDivisionError" THEN {step.name, step.expr}
    ELSE IF e.kind = "DimensionalityError" THEN {}
    ELSE {step.name} \cup exception_text(step, e)

\* what the message of the error raised for a check step quotes
check_message(step, e) == {step.desc} \cup exception_text(step, e)

\* a single except clause that wraps every exception alike
equation_error_generic(cls) == "RuntimeError"

\* the except clauses of an equation step: the class evaluate raises
equation_error_class(cls) ==
    IF cls = "ZeroDivisionError" THEN "ZeroDivisionError"
    ELSE IF cls = "DimensionalityError" THEN "DimensionalityError"
    ELSE "RuntimeError"

\* an equation step that, when the evaluation raises, puts back the step as
\* it was before the compilation
equation_step_uncached(step, graph_params, r) ==
    Force({
        IF IsRaised(result)
        THEN [step |-> step, params |-> graph_params,
              raised |-> equation_error_class(result.kind),
              cause |-> result.kind, msg |-> equation_message(r.step, result)]
        ELSE [step |-> [r.step EXCEPT !.result = result],
              params |-> DictSet(graph_params, step.name, result),
              raised |-> "", cause |-> "", msg |-> {}] :
        result \in {IF IsRaised(r.result) THEN r.result
                    ELSE evaluate_convert(r.result, step.unit)} })

\* an equation step once the raw result r = [step, result] is known
equation_step(step, graph_params, r) ==
    Force({
        IF IsRaised(result)
        THEN [step |-> r.step, params |-> graph_params,
              raised |-> equation_error_class(result.kind),
              cause |-> result.kind, msg |-> equation_message(r.step, result)]
        ELSE [step |-> [r.step EXCEPT !.result = result],
              params |-> DictSet(graph_params, step.name, result),
              raised |-> "", cause |-> "", msg |-> {}] :
        result \in {IF IsRaised(r.result) THEN r.result
                    ELSE evaluate_convert(r.result, step.unit)} })

\* a reduction of an array result that passes when any element passes
check_result_any(result) ==
    IF result.kind = "arr"
    THEN Bool(\E i \in 1..Len(result.elems) : PyBool(result.elems[i]))
    ELSE Bool(PyBool(result))

\* the boolean cached for a check: result.all() for an ndarray, else
\* bool(result)
check_result(result) ==
    IF result.kind = "arr"
    THEN Bool(\A i \in 1..Len(result.elems) : PyBool(result.elems[i]))
    ELSE Bool(PyBool(result))

\* a check step that stores its boolean in the symbol table as well
check_step_storing(step, graph_params, r) ==
    IF IsRaised(r.result)
    THEN [step |-> r.step, params |-> graph_params,
          raised |-> "RuntimeError", cause |-> r.result.kind,
          msg |-> check_message(r.step, r.result)]
    ELSE [step |-> [r.step EXCEPT !.result = check_result(r.result)],
          params |-> DictSet(graph_params, step.name, check_result(r.result)),
          raised |-> "", cause |-> "", msg |-> {}]

\* a check step once the raw result r = [step, result] is known
check_step(step, graph_params, r) ==
    IF IsRaised(r.result)
    THEN [step |-> r.step, params |-> graph_params,
          raised |-> "RuntimeError", cause |-> r.result.kind,
          msg |-> check_message(r.step, r.result)]
    ELSE [step |-> [r.step EXCEPT !.result = check_result(r.result)],
          params |-> graph_params, raised |-> "", cause |-> "", msg |-> {}]

\* the body of the for loop for one step:
\* [step, params, raised, cause, msg]; raised = "" when the step did not
\* raise
evaluate_step(step, graph_steps, graph_params) ==
    IF step.type = "eq"
    THEN Force({ equation_step(step, graph_params, r) :
                 r \in {_evaluate_raw_expression(step, graph_steps,
                                                 graph_params)} })
    ELSE IF step.type = "check"
    THEN Force({ check_step(step, graph_params, r) :
                 r \in {_evaluate_raw_expression(step, graph_steps,
                                                 graph_params)} })
    ELSE [step |-> step, params |-> graph_params, raised |-> "", cause |-> "",
          msg |-> {}]

\* for step in graph.steps, from index i on:
\* [steps, params, raised, cause, failed, msg]; failed is the index of the
\* step that raised, 0 when the pass completed, msg what the message quotes
RECURSIVE evaluate_from(_, _, _)
evaluate_from(i, graph_steps, graph_params) ==
    IF i > Len(graph_steps)
    THEN [steps |-> graph_steps, params |-> graph_params, raised |-> "",
          cause |-> "", failed |-> 0, msg |-> {}]
    ELSE Force({
         IF r.raised # ""
         THEN [steps |-> [graph_steps EXCEPT ![i] = r.step],
               params |-> r.params,
               raised |-> r.raised, cause |-> r.cause, failed |-> i,
               msg |-> r.msg]
         ELSE Force({ evaluate_from(i + 1, steps1, r.params) :
                      steps1 \in {[graph_steps EXCEPT ![i] = r.step]} }) :
         r \in {evaluate_step(graph_steps[i], graph_steps, graph_params)} })

\* CalculationEngine.evaluate(graph)
evaluate(graph_steps, graph_params) == evaluate_from(1, graph_steps, graph_params)

----------------------------------------------------------------------------
(* CalculationEngine.lambdify_equation and the wrapper it returns *)

NoFn == [name |-> "", compiled_func |-> NotCompiled, args_names |-> <<>>,
         target_unit |-> NoneUnit]

\* the search for the equation step: its index, 0 when not found
FindEquation(graph_steps, name) ==
    IF \E i \in 1..Len(graph_steps) :
          graph_steps[i].type = "eq" /\ graph_steps[i].name = name
    THEN CHOOSE i \in 1..Len(graph_steps) :
            /\ graph_steps[i].type = "eq" /\ graph_steps[i].name = name
            /\ \A j \in 1..(i - 1) :
                  ~(graph_steps[j].type = "eq" /\ graph_steps[j].name = name)
    ELSE 0

\* lambdify_equation(graph, name): [raised, cause, fn]
lambdify_equation(graph_steps, name) ==
    Force({
        IF i = 0 THEN [raised |-> "KeyError", cause |-> "", fn |-> NoFn]
        ELSE Force({ IF c.raised # ""
                     THEN [raised |-> c.raised, cause |-> c.cause, fn |-> NoFn]
                     ELSE [raised |-> "", cause |-> "",
                           fn |-> [name |-> name,
                                   compiled_func |-> c.compiled_func,
                                   args_names |-> c.args_names,
                                   target_unit |-> graph_steps[i].unit]] :
                     c \in {_compile_equation(name, graph_steps[i].expr,
                                              graph_steps, TRUE)} }) :
        i \in {FindEquation(graph_steps, name)} })

\* a unit injection that does not look at what the caller supplied
inject_unit_always(arg_name, val, graph_params) ==
    IF /\ arg_name \in DOMAIN graph_params
       /\ IsQuantity(graph_params[arg_name])
    THEN PyMul(val, UnitVal(graph_params[arg_name].unit))
    ELSE val

\* wrapper, 3: the unit of the parameter of that name injected into val
inject_unit(arg_name, val, graph_params) ==
    IF /\ arg_name \in DOMAIN graph_params
       /\ IsQuantity(graph_params[arg_name])
       /\ ~IsQuantity(val)
    THEN PyMul(val, UnitVal(graph_params[arg_name].unit))
    ELSE val

\* wrapper resolving from the symbol table before the bulk input
wrapper_arg_params_first(arg_name, df, graph_params) ==
    IF IsUnitPlaceholder(arg_name) THEN resolve_unit(arg_name)
    ELSE IF arg_name \in DOMAIN graph_params THEN graph_params[arg_name]
    ELSE IF arg_name \in DOMAIN df
    THEN inject_unit(arg_name, df[arg_name], graph_params)
    ELSE Raise("KeyError", arg_name)

\* wrapper: the value appended to args for one arg_name (or what is raised)
wrapper_arg(arg_name, df, graph_params) ==
    IF IsUnitPlaceholder(arg_name) THEN resolve_unit(arg_name)
    ELSE IF arg_name \in DOMAIN df
    THEN inject_unit(arg_name, df[arg_name], graph_params)
    ELSE IF arg_name \in DOMAIN graph_params THEN graph_params[arg_name]
    ELSE Raise("KeyError", arg_name)

\* wrapper, 5: the conversion of the raw result res
wrapper_convert(res, target_unit) ==
    IF target_unit # NoneUnit
    THEN IF IsQuantity(res) THEN QTo(res, UnitNamed(target_unit)) ELSE res
    ELSE IF res.kind = "qty"
         THEN IF QDimensionless(res) THEN Val("num", Mag(res), NoUnits, "")
              ELSE res
    ELSE IF res.kind = "unit" /\ ~QDimensionless(res) THEN res
    ELSE Raise("AttributeError", "")

\* wrapper(df): [args, raw, result]; raw is res before step 5 (None when
\* building args raised), result the value returned or what is raised
wrapper(f, df, graph_params) ==
    Force({
        Force({ [args |-> args,
                 raw |-> IF FirstRaised(args) # None THEN None ELSE res,
                 result |-> IF IsRaised(res) THEN res
                            ELSE wrapper_convert(res, f.target_unit)] :
                res \in {call_with(f.compiled_func, args)} }) :
        args \in {[i \in 1..Len(f.args_names) |->
                    wrapper_arg(f.args_names[i], df, graph_params)]} })

----------------------------------------------------------------------------
(* The inputs the client passes *)

EmptyDict == [n \in {} |-> None]

StrValue == Val("str", [n |-> 0, d |-> 1], NoUnits, "")

\* (name, value) of the add_param calls; "2x" is no identifier and a string
\* no accepted value
ParamInputs == { <<"x", Num(5, 1)>>, <<"2x", Num(5, 1)>>, <<"x", StrValue>> }
Symbols == {"s"}

\* (name, expr, unit) of the add_equation calls
EquationInputs ==
    { <<"y", "x + 2", "m">>, <<"z", "y * 3", NoneUnit>>,
      <<"z", "z + 1", NoneUnit>>, <<"y", "2 * u.cm", "m">>,
      <<"z", "x +", NoneUnit>>, <<"z", "eval(x)", NoneUnit>> }

\* (expr, desc, name) of the add_check calls
CheckInputs == { <<"y > 0", "positive", "y">>, <<"x__y", "positive", "Check">> }

LambdifyNames == {"x", "y", "z"}

BulkInputs ==
    { EmptyDict, ("x" :> Num(10, 1)), ("y" :> Num(10, 1)),
      ("x" :> Num(10, 1)) @@ ("y" :> Num(10, 1)) }

\* A second set of inputs: a zero and a dimensioned parameter, equations
\* that divide by the parameter, add a bare number to it, convert between
\* units and refer to each other, a check named by a Python keyword.
ParamInputsQ ==
    { <<"x", Num(0, 1)>>, <<"x", Qty(5, 1, UnitCm)>>, <<"2x", Num(0, 1)>> }

EquationInputsQ ==
    { <<"y", "10 / x", NoneUnit>>, <<"y", "x + 2", "m">>,
      <<"z", "x * u.cm", "m">>, <<"z", "y * 3", "cm">>,
      <<"y", "z + 1", NoneUnit>>, <<"z", "x * u.cm", "cm">> }

CheckInputsQ == { <<"y > 0", "positive", "lambda">> }

LambdifyNamesQ == {"y", "z"}

\* the keys of the index accesses
GetNames == {"x", "y", "z"}

\* A third set of inputs, for calls of a lambdified function: a parameter
\* declared bare or in cm, an equation on it with and without a target
\* unit, bulk inputs that supply the parameter bare, in cm and in m.
ParamInputsL == { <<"y", Num(5, 1)>>, <<"y", Qty(5, 1, UnitCm)>> }

EquationInputsL == { <<"z", "y * 3", NoneUnit>>, <<"z", "y * 3", "m">> }

BulkInputsL ==
    { EmptyDict, ("y" :> Num(10, 1)), ("y" :> Qty(10, 1, UnitCm)),
      ("y" :> Qty(10, 1, UnitM)) }

\* A fourth set of inputs, for checks on arrays: x and y declared as
\* arrays of two elements or as numbers, a check that compares them
\* element by element, with and without an explicit all(...).
ParamInputsA ==
    { <<"x", Arr(<<Num(10, 1), Num(20, 1)>>)>>, <<"x", Num(10, 1)>>,
      <<"y", Arr(<<Num(5, 1), Num(15, 1)>>)>>,
      <<"y", Arr(<<Num(5, 1), Num(25, 1)>>)>>,
      <<"y", Arr(<<Num(15, 1), Num(25, 1)>>)>>, <<"y", Num(5, 1)>> }

CheckInputsA ==
    { <<"x > y", "greater", "Check">>, <<"all(x > y)", "greater", "Check">> }

\* The expressions given to the safety filter alone: every string of at
\* most MaxLen characters over an alphabet that spells 'os', 'sys', 'cos(',
\* 'os_', 'os2' and '__'.
MaxLen == 5
FilterAlphabet == {"o", "s", "y", "c", "_", "(", "2"}
FilterExprs == UNION { [1..n -> FilterAlphabet] : n \in 0..MaxLen }

----------------------------------------------------------------------------
(* LaTeXTemplateLibrary.  A template is a record [environments, rows]:     *)
(* environments maps a step type to the name of its environment, rows a   *)
(* step type to its row format, given by the set of the fields the format  *)
(* string holds.  A type may be missing from either.                       *)

StepTypes == {"param", "eq", "check"}

DEFAULT_TEMPLATES ==
    [standard |->
        [environments |-> [t \in StepTypes |-> "align*"],
         rows |-> ("param" :> {"symbol", "value", "desc"})
                  @@ ("eq" :> {"symbol", "expr", "value", "desc"})
                  @@ ("check" :> {"name", "desc", "expr", "status"})],
     compact |->
        [environments |-> [t \in StepTypes |-> "align*"],
         rows |-> ("param" :> {"symbol", "value"})
                  @@ ("eq" :> {"symbol", "value"})
                  @@ ("check" :> {"name", "status"})],
     detailed |->
        [environments |-> [t \in StepTypes |-> "itemize"],
         rows |-> ("param" :> {"desc", "symbol", "value"})
                  @@ ("eq" :> {"desc", "symbol", "expr", "value"})
                  @@ ("check" :> {"desc", "expr", "status"})]]

\* LaTeXTemplateLibrary.get_template(name_or_dict) for a name
get_template(name) ==
    IF name \in DOMAIN DEFAULT_TEMPLATES THEN DEFAULT_TEMPLATES[name]
    ELSE DEFAULT_TEMPLATES["standard"]

----------------------------------------------------------------------------
(* LaTeXFormatter.report.  The report is the sequence of its lines.  A    *)
(* line is a record [kind, env, step, shown]: kind "begin" or "end" for   *)
(* an environment marker of name env, "row" for the row of the step of    *)
(* index step, "error" for the comment that replaces a row that did not   *)
(* render; shown is the set of the display symbols, names, descriptions   *)
(* and raw expression texts the line holds; env of a row is the           *)
(* environment open when it was appended.                                  *)

NoneEnv == "None"

Line(kind, env, step, shown) ==
    [kind |-> kind, env |-> env, step |-> step, shown |-> shown]

\* the keys of data
DataKeys == {"symbol", "name", "desc", "value", "expr", "status"}

\* sympy.sympify(expr_str, locals=local_dict, evaluate=False) on the raw
\* string: u.<unit> is an attribute of the Symbol u and all(...) the
\* builtin applied to a relation, both raise
sympify_raw(expr_str) ==
    IF ParseFails(process_and_sympify(expr_str)) THEN SympifyError
    ELSE IF \E n \in free_symbols(process_and_sympify(expr_str)) :
               IsUnitPlaceholder(n)
         THEN SympifyError
    ELSE IF process_and_sympify(expr_str).op = "all" THEN SympifyError
    ELSE process_and_sympify(expr_str)

\* _format_expr(expr_str, graph): what the rendered expression shows
_format_expr(expr_str, graph_symbols) ==
    IF ParseFails(sympify_raw(expr_str)) THEN {expr_str}
    ELSE { IF n \in DOMAIN graph_symbols THEN graph_symbols[n] ELSE n :
           n \in free_symbols(sympify_raw(expr_str)) }

\* data["expr"] of a check: the symbols in the symbol table are replaced
\* by "{symbol} = value"
check_expr_shown(expr_str, graph_params, graph_symbols) ==
    IF ParseFails(sympify_raw(expr_str))
    THEN _format_expr(expr_str, graph_symbols)
    ELSE { IF n \in DOMAIN graph_params /\ n \in DOMAIN graph_symbols
           THEN graph_symbols[n] ELSE n :
           n \in free_symbols(sympify_raw(expr_str)) }

\* the data of a step and the row rendered from row_tpl.format(**data)
row_line(i, step, graph_params, graph_symbols, rows_config, current_env) ==
    Force({
        IF ~(row_tpl \subseteq DataKeys)
        THEN Line("error", current_env, i, {step.name})
        ELSE Line("row", current_env, i,
                  (IF "symbol" \in row_tpl THEN {step.symbol} ELSE {})
                  \cup (IF "name" \in row_tpl THEN {step.name} ELSE {})
                  \cup (IF "desc" \in row_tpl THEN {step.desc} ELSE {})
                  \cup (IF "expr" \notin row_tpl \/ step.type = "param"
                        THEN {}
                        ELSE IF step.type = "eq"
                        THEN _format_expr(step.expr, graph_symbols)
                        ELSE check_expr_shown(step.expr, graph_params,
                                              graph_symbols))) :
        row_tpl \in {IF step.type \in DOMAIN rows_config
                     THEN rows_config[step.type] ELSE {}} })

\* Determine required environment
required_env(step_type, envs_config, environment) ==
    IF environment # NoneEnv THEN environment
    ELSE IF step_type \in DOMAIN envs_config THEN envs_config[step_type]
    ELSE "align*"

\* an environment switch that opens the new environment without closing
\* the one that is open
switch_lines_unclosed(current_env, req_env) ==
    IF current_env = req_env THEN <<>>
    ELSE IF req_env # NoneEnv THEN <<Line("begin", req_env, 0, {})>>
    ELSE <<>>

\* Environment switching: the lines appended before the row
switch_lines(current_env, req_env) ==
    IF current_env = req_env THEN <<>>
    ELSE (IF current_env # NoneEnv
          THEN <<Line("end", current_env, 0, {})>> ELSE <<>>)
         \o (IF req_env # NoneEnv
             THEN <<Line("begin", req_env, 0, {})>> ELSE <<>>)

\* a test of the hidden flag that lets every step through
is_hidden_never(step) == FALSE

\* step.get("hidden", False)
is_hidden(step) == step.hidden

\* for step in graph.steps, from index i on, then the final \end
RECURSIVE report_from(_, _, _, _, _, _, _, _, _)
report_from(i, lines, current_env, graph_steps, graph_params, graph_symbols, rows_config, envs_config, environment) ==
    IF i > Len(graph_steps)
    THEN IF current_env # NoneEnv
         THEN Append(lines, Line("end", current_env, 0, {}))
         ELSE lines
    ELSE IF is_hidden(graph_steps[i])
    THEN report_from(i + 1, lines, current_env, graph_steps, graph_params,
                     graph_symbols, rows_config, envs_config, environment)
    ELSE Force({
         report_from(i + 1,
                     Append(lines \o switch_lines(current_env, req_env),
                            row_line(i, graph_steps[i], graph_params,
                                     graph_symbols, rows_config, req_env)),
                     req_env, graph_steps, graph_params, graph_symbols,
                     rows_config, envs_config, environment) :
         req_env \in {required_env(graph_steps[i].type, envs_config,
                                   environment)} })

\* current_template["rows"] after the merge of row_templates
merged_rows(tpl, row_templates) ==
    IF DOMAIN row_templates # {} THEN row_templates @@ tpl.rows
    ELSE tpl.rows

\* a merge that updates the rows of self.template in place
template_updated_in_place(tpl, row_templates) ==
    [tpl EXCEPT !.rows = merged_rows(tpl, row_templates)]

\* self.template after report(): the merge is made on copies
template_after_report(tpl, row_templates) == tpl

\* LaTeXFormatter.report(graph, row_templates, environment): the lines
report(graph_steps, graph_params, graph_symbols, tpl, row_templates, environment) ==
    report_from(1, <<>>, NoneEnv, graph_steps, graph_params, graph_symbols,
                merged_rows(tpl, row_templates), tpl.environments,
                environment)

\* A fifth set of inputs, for reports: a parameter declared visible or
\* hidden, with different display symbols, equations that refer to it, one
\* of them hidden, one holding a unit reference, a check on both; the
\* three templates of the library and one with an environment per type; a
\* row override for equations and environment overrides.
ParamInputsR == { <<"x", "X", Num(5, 1), FALSE>>, <<"x", "H", Num(5, 1), TRUE>> }

EquationInputsR ==
    { <<"y", "Y", "x + 2", NoneUnit, FALSE>>,
      <<"y", "Y", "2 * u.cm", "m", FALSE>>,
      <<"z", "H", "y * 3", NoneUnit, TRUE>> }

CheckInputsR == { <<"x > y", "greater", "Check">> }

CustomTemplate ==
    [environments |-> ("param" :> "itemize") @@ ("eq" :> "align*")
                      @@ ("check" :> NoneEnv),
     rows |-> DEFAULT_TEMPLATES["standard"].rows]

TemplatesR ==
    { get_template("standard"), get_template("compact"),
      get_template("detailed"), CustomTemplate }

RowTemplatesR == { EmptyDict, ("eq" :> {"symbol", "expr"}) }

EnvironmentsR == { NoneEnv, "align*", "equation" }

BulkInputsR == { EmptyDict, ("x" :> Num(10, 1)) }

\* A sixth set of inputs, for repeated evaluations: a parameter and an
\* equation declared under the same name, the equation reading that name,
\* beside an equation and a check with names of their own.
ParamInputsI == { <<"z", Num(5, 1)>>, <<"x", Num(5, 1)>> }

EquationInputsI == { <<"z", "z + 1", NoneUnit>>, <<"y", "x + 2", NoneUnit>> }

CheckInputsI == { <<"y > 0", "positive", "Check">> }

\* the largest magnitude from which evaluate() is still explored
MaxValue == 8

\* A seventh set of inputs, for the order of the arguments: expressions
\* whose names are not written in sorted order and whose value depends on
\* which argument is which.
ParamInputsP == { <<"x", Num(10, 1)>>, <<"y", Num(5, 1)>> }

EquationInputsP == { <<"z", "y / x", NoneUnit>>, <<"z", "x * u.cm", "m">> }

CheckInputsP == { <<"x > y", "greater", "Check">> }

BulkInputsP ==
    { EmptyDict, ("x" :> Num(2, 1)), ("x" :> Num(2, 1)) @@ ("y" :> Num(8, 1)) }

\* An eighth set of inputs, for the depth of the expansion: a parameter x
\* and a chain of n equations, each the next one plus 1 and the last one
\* "x + 2", so that the expansion of the k-th needs n - k rounds.
MaxChain == 22

ChainGraph(n) ==
    <<ParamStep("x", "s", Num(5, 1), FALSE)>>
    \o [i \in 1..n |->
          EqStep(ChainNames[i], "s",
                 IF i < n THEN ChainExprs[i] ELSE "x + 2", NoneUnit, FALSE)]

----------------------------------------------------------------------------
(* The state machine *)

Outcome(op, kind, name, info) ==
    [op |-> op, kind |-> kind, name |-> name, info |-> info, val |-> None,
     raw |-> None, df |-> EmptyDict, args |-> <<>>, failed |-> 0, msg |-> {},
     lines |-> <<>>, rows |-> EmptyDict, env |-> NoneEnv]

Init ==
    /\ params = EmptyDict
    /\ symbols = EmptyDict
    /\ steps = <<>>
    /\ fn = NoFn
    /\ template = get_template("standard")
    /\ out = Outcome("init", "ok", "", "")

\* an add_param that stores the value before it validates it
add_param_stores_first(name, symbol, value, hidden) ==
    IF ~isidentifier(name)
    THEN /\ out' = Outcome("add_param", "ValueError", name, "")
         /\ UNCHANGED <<params, symbols, steps, fn, template>>
    ELSE IF value.kind \notin {"num", "qty", "arr"}
    THEN /\ params' = DictSet(params, name, value)
         /\ symbols' = DictSet(symbols, name, symbol)
         /\ out' = Outcome("add_param", "TypeError", name, "")
         /\ UNCHANGED <<steps, fn, template>>
    ELSE /\ Len(steps) < MaxSteps
         /\ params' = DictSet(params, name, value)
         /\ symbols' = DictSet(symbols, name, symbol)
         /\ steps' = Append(steps, ParamStep(name, symbol, value, hidden))
         /\ out' = Outcome("add_param", "ok", name, "")
         /\ UNCHANGED <<fn, template>>

\* CalculationGraph.add_param(name, symbol, value, hidden)
add_param(name, symbol, value, hidden) ==
    IF ~isidentifier(name)
    THEN /\ out' = Outcome("add_param", "ValueError", name, "")
         /\ UNCHANGED <<params, symbols, steps, fn, template>>
    ELSE IF value.kind \notin {"num", "qty", "arr"}
    THEN /\ out' = Outcome("add_param", "TypeError", name, "")
         /\ UNCHANGED <<params, symbols, steps, fn, template>>
    ELSE /\ Len(steps) < MaxSteps
         /\ params' = DictSet(params, name, value)
         /\ symbols' = DictSet(symbols, name, symbol)
         /\ steps' = Append(steps, ParamStep(name, symbol, value, hidden))
         /\ out' = Outcome("add_param", "ok", name, "")
         /\ UNCHANGED <<fn, template>>

\* CalculationGraph.add_equation(name, symbol, expr, unit, hidden)
add_equation(name, symbol, expr, unit, hidden) ==
    IF validate_expression(name, expr) # ""
    THEN /\ out' = Outcome("add_equation", validate_expression(name, expr),
                           name, "")
         /\ UNCHANGED <<params, symbols, steps, fn, template>>
    ELSE /\ Len(steps) < MaxSteps
         /\ symbols' = DictSet(symbols, name, symbol)
         /\ steps' = Append(steps, EqStep(name, symbol, expr, unit, hidden))
         /\ out' = Outcome("add_equation", "ok", name, "")
         /\ UNCHANGED <<params, fn, template>>

\* CalculationGraph.add_check(expr, desc, name)
add_check(expr, desc, name) ==
    IF validate_expression(name, expr) # ""
    THEN /\ out' = Outcome("add_check", validate_expression(name, expr),
                           name, "")
         /\ UNCHANGED <<params, symbols, steps, fn, template>>
    ELSE /\ Len(steps) < MaxSteps
         /\ steps' = Append(steps, CheckStep(name, expr, desc))
         /\ out' = Outcome("add_check", "ok", name, "")
         /\ UNCHANGED <<params, symbols, fn, template>>

\* SimpleFormBuilder.evaluate()
Evaluate ==
    \E r \in {evaluate(steps, params)} :
        /\ steps' = r.steps
        /\ params' = r.params
        /\ out' = [Outcome("evaluate",
                           IF r.raised = "" THEN "ok" ELSE r.raised,
                           IF r.failed = 0 THEN "" ELSE steps[r.failed].name,
                           r.cause)
                   EXCEPT !.failed = r.failed, !.msg = r.msg]
        /\ UNCHANGED <<symbols, fn, template>>

\* f = SimpleFormBuilder.lambdify_equation(name)
Lambdify(name) ==
    \E r \in {lambdify_equation(steps, name)} :
        /\ fn' = IF r.raised = "" THEN r.fn ELSE fn
        /\ out' = Outcome("lambdify", IF r.raised = "" THEN "ok" ELSE r.raised,
                          name, r.cause)
        /\ UNCHANGED <<params, symbols, steps, template>>

\* f(df), f the function last returned by lambdify_equation
Call(df) ==
    /\ fn # NoFn
    /\ \E r \in {wrapper(fn, df, params)} :
           out' = [Outcome("call",
                           IF IsRaised(r.result) THEN r.result.kind ELSE "ok",
                           fn.name, r.result.info)
                   EXCEPT !.val = r.result, !.raw = r.raw, !.df = df,
                          !.args = r.args]
    /\ UNCHANGED <<params, symbols, steps, fn, template>>

\* an index access that strips the unit of a quantity
getitem_magnitude(graph_params, key) ==
    IF key \notin DOMAIN graph_params THEN Raise("KeyError", key)
    ELSE IF graph_params[key].kind = "qty"
         THEN Num(graph_params[key].n, graph_params[key].d)
    ELSE graph_params[key]

\* SimpleFormBuilder.__getitem__(key)
getitem(graph_params, key) ==
    IF key \in DOMAIN graph_params THEN graph_params[key]
    ELSE Raise("KeyError", key)

\* builder[key]
Get(key) ==
    /\ out' = [Outcome("get",
                       IF IsRaised(getitem(params, key)) THEN "KeyError"
                       ELSE "ok",
                       key, "")
               EXCEPT !.val = getitem(params, key)]
    /\ UNCHANGED <<params, symbols, steps, fn, template>>

Next ==
    \/ \E p \in ParamInputs, symbol \in Symbols : add_param(p[1], symbol, p[2], FALSE)
    \/ \E e \in EquationInputs, symbol \in Symbols :
          add_equation(e[1], symbol, e[2], e[3], FALSE)
    \/ \E c \in CheckInputs : add_check(c[1], c[2], c[3])
    \/ Evaluate
    \/ \E name \in LambdifyNames : Lambdify(name)
    \/ \E df \in BulkInputs : Call(df)

Spec == Init /\ [][Next]_vars

\* the operations on the third set of inputs
NextL ==
    \/ \E p \in ParamInputsL, symbol \in Symbols : add_param(p[1], symbol, p[2], FALSE)
    \/ \E e \in EquationInputsL, symbol \in Symbols :
          add_equation(e[1], symbol, e[2], e[3], FALSE)
    \/ Evaluate
    \/ Lambdify("z")
    \/ \E df \in BulkInputsL : Call(df)

SpecL == Init /\ [][NextL]_vars

\* the operations on the fourth set of inputs
NextA ==
    \/ \E p \in ParamInputsA, symbol \in Symbols : add_param(p[1], symbol, p[2], FALSE)
    \/ \E c \in CheckInputsA : add_check(c[1], c[2], c[3])
    \/ Evaluate

SpecA == Init /\ [][NextA]_vars

\* SimpleFormBuilder.report(row_templates, environment)
Report(row_templates, environment) ==
    /\ out' = [Outcome("report", "ok", "", "")
               EXCEPT !.lines = report(steps, params, symbols, template,
                                       row_templates, environment),
                      !.rows = row_templates, !.env = environment]
    /\ template' = template_after_report(template, row_templates)
    /\ UNCHANGED <<params, symbols, steps, fn>>

\* SimpleFormBuilder(template=...)
InitR ==
    /\ params = EmptyDict
    /\ symbols = EmptyDict
    /\ steps = <<>>
    /\ fn = NoFn
    /\ template \in TemplatesR
    /\ out = Outcome("init", "ok", "", "")

\* the operations on the fifth set of inputs, with reports
NextR ==
    \/ \E p \in ParamInputsR : add_param(p[1], p[2], p[3], p[4])
    \/ \E e \in EquationInputsR : add_equation(e[1], e[2], e[3], e[4], e[5])
    \/ \E c \in CheckInputsR : add_check(c[1], c[2], c[3])
    \/ Evaluate
    \/ \E rt \in RowTemplatesR, environment \in EnvironmentsR :
          Report(rt, environment)
    \/ Lambdify("y")
    \/ \E df \in BulkInputsR : Call(df)

SpecR == InitR /\ [][NextR]_vars

\* the magnitudes in the symbol table are within the explored range
ValuesInRange ==
    \A n \in DOMAIN params :
        params[n].kind = "num" => params[n].n <= MaxValue * params[n].d

\* the operations on the sixth set of inputs, with repeated evaluations
NextI ==
    \/ \E p \in ParamInputsI : add_param(p[1], "s", p[2], FALSE)
    \/ \E e \in EquationInputsI : add_equation(e[1], "s", e[2], e[3], FALSE)
    \/ \E c \in CheckInputsI : add_check(c[1], c[2], c[3])
    \/ ValuesInRange /\ Evaluate

SpecI == Init /\ [][NextI]_vars

\* the operations on the seventh set of inputs
NextP ==
    \/ \E p \in ParamInputsP : add_param(p[1], "s", p[2], FALSE)
    \/ \E e \in EquationInputsP : add_equation(e[1], "s", e[2], e[3], FALSE)
    \/ \E c \in CheckInputsP : add_check(c[1], c[2], c[3])
    \/ Evaluate
    \/ Lambdify("z")
    \/ \E df \in BulkInputsP : Call(df)

SpecP == Init /\ [][NextP]_vars

\* the graph after add_param("x", ...) and the add_equation calls of a
\* chain of n equations
InitChain ==
    \E n \in 1..MaxChain :
        /\ steps = ChainGraph(n)
        /\ params = ("x" :> Num(5, 1))
        /\ symbols = [name \in {"x"} \cup {ChainNames[i] : i \in 1..n} |-> "s"]
        /\ fn = NoFn
        /\ template = get_template("standard")
        /\ out = Outcome("add_equation", "ok", ChainNames[n], "")

\* lambdify_equation on the equations of the chain, and calls
NextChain ==
    \/ \E i \in 1..MaxChain : Lambdify(ChainNames[i])
    \/ \E df \in BulkInputsP : Call(df)

SpecChain == InitChain /\ [][NextChain]_vars

\* The safety filter alone.  The expression is drawn at the start: out.args
\* holds its characters.
InitFilter ==
    /\ params = EmptyDict
    /\ symbols = EmptyDict
    /\ steps = <<>>
    /\ fn = NoFn
    /\ template = get_template("standard")
    /\ \E cs \in FilterExprs :
          out = [Outcome("expr", "ok", "x", "") EXCEPT !.args = cs]

\* security_check(name, expr) with a valid name and the drawn expression;
\* out.info holds the message of the ValueError
Filter ==
    /\ out.op = "expr"
    /\ out' = [Outcome("filter",
                       IF ~isidentifier(out.name) THEN "ValueError"
                       ELSE IF check_expr(out.args) = "" THEN "ok"
                       ELSE "ValueError",
                       out.name, check_expr(out.args))
               EXCEPT !.args = out.args]
    /\ UNCHANGED <<params, symbols, steps, fn, template>>

NextFilter == Filter

SpecFilter == InitFilter /\ [][NextFilter]_vars

\* the operations on the second set of inputs, with index access
NextQ ==
    \/ \E p \in ParamInputsQ, symbol \in Symbols : add_param(p[1], symbol, p[2], FALSE)
    \/ \E e \in EquationInputsQ, symbol \in Symbols :
          add_equation(e[1], symbol, e[2], e[3], FALSE)
    \/ \E c \in CheckInputsQ : add_check(c[1], c[2], c[3])
    \/ Evaluate
    \/ \E name \in LambdifyNamesQ : Lambdify(name)
    \/ \E key \in GetNames : Get(key)

SpecQ == Init /\ [][NextQ]_vars

----------------------------------------------------------------------------
(* Properties.  Shared vocabulary first.                                   *)

\* the symbol-table entry of a name, None when there is none
Entry(graph_params, name) ==
    IF name \in DOMAIN graph_params THEN graph_params[name] ELSE None

StepIndices == 1..Len(steps)

\* the names the expression of step i references (unit placeholders aside)
References(i) ==
    IF ParseFails(process_and_sympify(steps[i].expr)) THEN {}
    ELSE { s \in free_symbols(process_and_sympify(steps[i].expr)) :
             ~IsUnitPlaceholder(s) }

\* n is declared by a step of the given type at a position in I
DeclaredIn(n, type, I) ==
    \E j \in I : steps[j].type = type /\ steps[j].name = n

\* every Parameter and Equation name is declared by one step only
NamesDeclaredOnce ==
    \A i, j \in StepIndices :
        (/\ i # j
         /\ steps[i].type \in {"param", "eq"}
         /\ steps[j].type \in {"param", "eq"}) => steps[i].name # steps[j].name

\* fn is what lambdify_equation returns on the graph as it is now
FnIsCurrent ==
    /\ fn # NoFn
    /\ lambdify_equation(steps, fn.name).raised = ""
    /\ lambdify_equation(steps, fn.name).fn = fn

\* the bulk input of the last call holds only the graph's own values of
\* Parameters
OwnRootValues(df) ==
    \A k \in DOMAIN df :
        /\ DeclaredIn(k, "param", StepIndices)
        /\ Entry(params, k) = df[k]

(* C1: for every graph on which evaluate() succeeds and every Equation     *)
(* name e, the function lambdify_equation(e) returns, called on the        *)
(* graph's own root values or on an empty bulk input, returns the value    *)
(* that get(e) returns after evaluate().                                   *)
C1_LambdifyReproducesEvaluate ==
    (/\ out.op = "call"
     /\ FnIsCurrent
     /\ NamesDeclaredOnce
     /\ OwnRootValues(out.df)
     /\ evaluate(steps, params).raised = "")
    => out.val = Entry(evaluate(steps, params).params, fn.name)

\* the case of C1: a current function of a graph that evaluates, called on
\* an empty bulk input, and the value differs from that of evaluate()
C1_Case ==
    /\ out.op = "call"
    /\ FnIsCurrent
    /\ NamesDeclaredOnce
    /\ out.df = EmptyDict
    /\ evaluate(steps, params).raised = ""
    /\ out.val # Entry(evaluate(steps, params).params, fn.name)

(* C2: evaluate() stops at the first failing step: every Equation step     *)
(* before it has its newly computed value in the symbol table and cached   *)
(* on the step, and every step after it keeps its cached result and its    *)
(* symbol-table entry as they were before the call.                        *)
C2_StopsAtFirstFailure ==
    [][ (out'.op = "evaluate" /\ out'.failed # 0) =>
          /\ \A i \in 1..(out'.failed - 1) :
                steps[i].type = "eq" =>
                   /\ steps'[i].result # None
                   /\ Entry(params', steps[i].name) = steps'[i].result
          /\ \A i \in (out'.failed + 1)..Len(steps) :
                /\ steps'[i] = steps[i]
                /\ Entry(params', steps[i].name) = Entry(params, steps[i].name)
      ]_vars

\* the case of C2: a pass that failed at a step with steps before and after
C2_Case ==
    /\ out.op = "evaluate"
    /\ out.failed > 1
    /\ out.failed < Len(steps)

\* step i references a name that only steps after it declare
ForwardReference(i, n) ==
    /\ steps[i].type \in {"eq", "check"}
    /\ n \in References(i)
    /\ \E j \in (i + 1)..Len(steps) :
          steps[j].type \in {"param", "eq"} /\ steps[j].name = n
    /\ ~DeclaredIn(n, "param", 1..i)
    /\ ~DeclaredIn(n, "eq", 1..i)

\* the last pass did not get past step i
FailedAtOrBefore(i) == out.failed \in 1..i

(* C3, as stated: if the expression of an Equation or Check step           *)
(* references a name whose declaring step comes after it, evaluate()       *)
(* fails at that step instead of computing a value.                        *)
C3_ForwardReferenceFails ==
    out.op = "evaluate" =>
        \A i \in StepIndices :
            (\E n \in References(i) : ForwardReference(i, n))
            => FailedAtOrBefore(i)

(* C3, amended: a reference to a name that only later Equation steps       *)
(* declare makes evaluate() fail at the referencing step at the latest;    *)
(* a step all of whose names are Parameters of the graph, declared before  *)
(* or after it, never fails for a missing name.                            *)
C3_LaterEquationFails ==
    out.op = "evaluate" =>
        \A i \in StepIndices :
            /\ (\E n \in References(i) :
                   /\ ForwardReference(i, n)
                   /\ ~DeclaredIn(n, "param", StepIndices))
               => FailedAtOrBefore(i)
            /\ (/\ steps[i].type \in {"eq", "check"}
                /\ \A n \in References(i) : DeclaredIn(n, "param", StepIndices))
               => ~(out.failed = i /\ out.info = "KeyError")

\* the case of C3: a pass over a graph whose first step references a name
\* that a later Equation declares, failing there for the missing name
C3_Case ==
    /\ out.op = "evaluate"
    /\ Len(steps) > 1
    /\ \E n \in References(1) :
          ForwardReference(1, n) /\ ~DeclaredIn(n, "param", StepIndices)
    /\ out.failed = 1
    /\ out.info = "KeyError"

\* the case C3 as stated gets wrong: a step referencing a Parameter that is
\* declared after it, computed by a pass that succeeds
C3_LaterParameterCase ==
    /\ out.op = "evaluate"
    /\ out.failed = 0
    /\ \E i \in StepIndices : \E n \in References(i) : ForwardReference(i, n)

(* C4: for an Equation declared without a target unit whose raw result is  *)
(* a bare number, the lambdified function returns that bare number and     *)
(* does not fail because of the kind of the result.                        *)
C4_BareResultReturned ==
    (/\ out.op = "call"
     /\ fn.target_unit = NoneUnit
     /\ out.raw.kind = "num")
    => (out.kind = "ok" /\ out.val = out.raw)

\* the case of C4: such a call, failing on the attribute of the result
C4_Case ==
    /\ out.op = "call"
    /\ fn.target_unit = NoneUnit
    /\ out.raw.kind = "num"
    /\ out.kind = "AttributeError"

(* C5: when the equation declares a target unit, the lambdified function   *)
(* applies the target-unit rule of evaluate(): a quantity is converted to  *)
(* the unit and a bare number is wrapped in it.                            *)
C5_SameTargetUnitRule ==
    (/\ out.op = "call"
     /\ fn.target_unit # NoneUnit
     /\ out.raw # None
     /\ ~IsRaised(out.raw))
    => out.val = evaluate_convert(out.raw, fn.target_unit)

\* the case of C5: a bare raw result under a target unit, returned bare
C5_Case ==
    /\ out.op = "call"
    /\ fn.target_unit # NoneUnit
    /\ out.raw.kind = "num"
    /\ out.val = out.raw

\* the positions of the names the wrapper finds neither among the unit
\* placeholders, nor in the bulk input, nor in the symbol table
MissingArgs(df) ==
    { i \in 1..Len(fn.args_names) :
        /\ ~IsUnitPlaceholder(fn.args_names[i])
        /\ fn.args_names[i] \notin DOMAIN df
        /\ fn.args_names[i] \notin DOMAIN params }

(* C6: a call of the lambdified function resolves each free variable from  *)
(* the bulk input if it holds the name, otherwise from the symbol table,   *)
(* and otherwise fails with a KeyError naming the variable and the         *)
(* equation; a name present in both is taken from the bulk input.          *)
C6_ResolutionPriority ==
    out.op = "call" =>
        IF MissingArgs(out.df) = {}
        THEN /\ out.kind # "KeyError"
             /\ \A i \in 1..Len(fn.args_names) :
                   LET arg_name == fn.args_names[i]
                   IN  /\ arg_name \in DOMAIN out.df
                          => Mag(out.args[i]) = Mag(out.df[arg_name])
                       /\ (/\ ~IsUnitPlaceholder(arg_name)
                           /\ arg_name \notin DOMAIN out.df)
                          => out.args[i] = params[arg_name]
        ELSE /\ out.kind = "KeyError"
             /\ out.info = fn.args_names[CHOOSE i \in MissingArgs(out.df) :
                               \A j \in MissingArgs(out.df) : i <= j]
             /\ out.name = fn.name

\* the case of C6: a name present in the bulk input and in the symbol
\* table with different values
C6_Case ==
    /\ out.op = "call"
    /\ out.kind = "ok"
    /\ \E i \in 1..Len(fn.args_names) :
          /\ fn.args_names[i] \in DOMAIN out.df
          /\ fn.args_names[i] \in DOMAIN params
          /\ out.df[fn.args_names[i]] # params[fn.args_names[i]]

\* the case of C6 in which the call fails for a missing variable
C6_MissingCase ==
    /\ out.op = "call"
    /\ out.kind = "KeyError"
    /\ out.df # EmptyDict

(* C7: a bulk entry for a name the target equation's expression            *)
(* references overrides the intermediate result when that name is an       *)
(* Equation of the graph: the result is the target's own expression on     *)
(* the supplied entry (y = x + 2, z = y * 3, {y: 10} gives 30).            *)
C7_BulkOverridesIntermediate ==
    (/\ out.op = "call"
     /\ FnIsCurrent
     /\ NamesDeclaredOnce
     /\ References(FindEquation(steps, fn.name)) # {}
     /\ \A n \in References(FindEquation(steps, fn.name)) :
           n \in DOMAIN out.df /\ DeclaredIn(n, "eq", StepIndices))
    => out.raw = EvalTree(process_and_sympify(
                              steps[FindEquation(steps, fn.name)].expr),
                          out.df)

\* the case of C7: the bulk input holds y = 10, and the function computed
\* 21 from the parameter x = 5 behind y
C7_Case ==
    /\ out.op = "call"
    /\ FnIsCurrent
    /\ NamesDeclaredOnce
    /\ fn.name = "z"
    /\ steps[FindEquation(steps, "z")].expr = "y * 3"
    /\ DeclaredIn("y", "eq", StepIndices)
    /\ "y" \in DOMAIN out.df
    /\ "y" \notin {fn.args_names[i] : i \in 1..Len(fn.args_names)}
    /\ out.df["y"] = Num(10, 1)
    /\ out.raw = Num(21, 1)

(* C8: whenever lambdify_equation(name) returns a function, its            *)
(* free-variable list contains no name declared as an Equation step.       *)
C8_NoEquationAmongFreeVariables ==
    (out.op = "lambdify" /\ out.kind = "ok") =>
        \A i \in 1..Len(fn.args_names) :
            ~DeclaredIn(fn.args_names[i], "eq", StepIndices)

\* the case of C8: a function returned for an equation that references
\* another Equation of the graph
C8_Case ==
    /\ out.op = "lambdify"
    /\ out.kind = "ok"
    /\ \E n \in References(FindEquation(steps, fn.name)) :
          DeclaredIn(n, "eq", StepIndices)

\* the names of the model
Names == {"x", "y", "z"}

\* the expansion substitutes s: the first step of that name is an Equation
Expandable(s) ==
    /\ FirstStepNamed(steps, s) # 0
    /\ steps[FirstStepNamed(steps, s)].type = "eq"

\* the names one substitution of s brings in
BroughtIn(s) ==
    IF Expandable(s) THEN References(FirstStepNamed(steps, s)) ELSE {}

\* the names the expansion meets, starting from those of S
RECURSIVE Met(_, _)
Met(S, rounds) ==
    IF rounds = 0 THEN S
    ELSE Met(S \cup UNION { BroughtIn(s) : s \in S }, rounds - 1)

\* the expansion of the equation at step i cannot end: an expression on
\* the way does not parse, or a substituted name comes back
ChainBroken(i) ==
    \/ ParseFails(process_and_sympify(steps[i].expr))
    \/ \E s \in Met(References(i), Cardinality(Names)) :
          /\ Expandable(s)
          /\ \/ ParseFails(process_and_sympify(
                               steps[FirstStepNamed(steps, s)].expr))
             \/ s \in Met(BroughtIn(s), Cardinality(Names))

C9_CallTimeCase ==
    /\ out.op = "call"
    /\ out.kind = "KeyError"
    /\ FnIsCurrent

\* the error kind reported for an expression that does not parse
InvalidExpressionKind == _compile_equation("z", "x +", <<>>, TRUE).raised

(* C10: exceeding the substitution depth limit is reported with an error   *)
(* kind different from the one reported for an unparsable expression.      *)
C10_DepthFailureDistinguishable ==
    (out.op = "lambdify" /\ out.info = "RecursionError")
    => out.kind # InvalidExpressionKind

\* the case of C10: the depth limit exceeded, reported as ValueError
C10_Case ==
    /\ out.op = "lambdify"
    /\ out.info = "RecursionError"
    /\ out.kind = "ValueError"

\* the expansion loop run on the equation at step i:
\* [expr, depth, raised], depth the number of substitution rounds
Expansion(i) == expand_loop(process_and_sympify(steps[i].expr), 0, steps)

(* C11: dependency expansion always terminates: for every graph, also     *)
(* with self-referencing or mutually referencing equations, the loop      *)
(* performs at most 20 substitution rounds, stopping earlier only at a    *)
(* fixed point or on a failure, and lambdify_equation then returns a      *)
(* function or fails.                                                      *)
C11_ExpansionTerminates ==
    /\ \A i \in StepIndices :
          (/\ steps[i].type = "eq"
           /\ ~ParseFails(process_and_sympify(steps[i].expr)))
          => /\ Expansion(i).depth \in 0..20
             /\ Expansion(i).depth < 20
                => \/ Expansion(i).raised # ""
                   \/ EquationSyms(Expansion(i).expr, steps) = {}
    /\ out.op = "lambdify" => out.kind \in {"ok", "ValueError", "KeyError"}
    /\ (out.op = "lambdify" /\ out.kind = "ok")
       => Expansion(FindEquation(steps, out.name)).depth < 20

\* the case of C11: lambdify_equation on one of two equations that refer
\* to each other, ended by the depth limit after 20 rounds
C11_Case ==
    /\ out.op = "lambdify"
    /\ out.kind = "ValueError"
    /\ out.info = "RecursionError"
    /\ Expansion(FindEquation(steps, out.name)).depth = 20
    /\ \E i, j \in StepIndices :
          /\ i = FirstStepNamed(steps, "y") /\ steps[i].expr = "z + 1"
          /\ j = FirstStepNamed(steps, "z") /\ steps[j].expr = "y * 3"

DeclarationOps == {"add_param", "add_equation", "add_check"}

(* C12: a declaration that fails validation leaves the graph in its       *)
(* last-good state: when add_param, add_equation or add_check raises, the *)
(* step list, the symbol table and the display-symbol map are exactly as  *)
(* before the call.                                                        *)
C12_FailedDeclarationChangesNothing ==
    [][(out'.op \in DeclarationOps /\ out'.kind # "ok")
       => UNCHANGED <<steps, params, symbols>>]_vars

\* the case of C12: a declaration has just been rejected on a
\* graph that already holds steps, a symbol-table entry and display symbols
C12_Case ==
    /\ out.op \in DeclarationOps
    /\ out.kind \in {"ValueError", "TypeError"}
    /\ steps # <<>>
    /\ DOMAIN params # {}
    /\ DOMAIN symbols # {}

\* Python keywords among the names the model passes in
ReservedWords == {"lambda", "import"}

(* C13: add_param, add_equation and add_check accept a step name only if  *)
(* it is a valid bare identifier that is not a reserved word; every other *)
(* name, a reserved word such as 'lambda' included, is rejected with the  *)
(* invalid-name failure.                                                   *)
C13_ReservedWordNamesRejected ==
    /\ (out.op \in DeclarationOps /\ out.kind = "ok")
       => (isidentifier(out.name) /\ out.name \notin ReservedWords)
    /\ \A i \in StepIndices :
          isidentifier(steps[i].name) /\ steps[i].name \notin ReservedWords
    /\ (out.op \in DeclarationOps /\ ~isidentifier(out.name))
       => out.kind = "ValueError"

\* the case of C13: a declaration under the name 'lambda' has been accepted
\* and its step stands in the graph
C13_Case ==
    /\ out.op = "add_check"
    /\ out.kind = "ok"
    /\ out.name = "lambda"
    /\ steps # <<>>
    /\ steps[Len(steps)].name = "lambda"

\* the maximal runs of word characters of cs, as (first, last) positions
WordRuns(cs) ==
    { r \in (1..Len(cs)) \X (1..Len(cs)) :
        /\ r[1] <= r[2]
        /\ \A k \in r[1]..r[2] : cs[k] \in WordChars
        /\ (r[1] = 1 \/ cs[r[1] - 1] \notin WordChars)
        /\ (r[2] = Len(cs) \/ cs[r[2] + 1] \notin WordChars) }

\* cs holds a deny-listed word as a whole word, or the substring '__'
DenyListed(cs) ==
    \/ \E i \in 1..(Len(cs) - 1) : cs[i] = "_" /\ cs[i + 1] = "_"
    \/ \E r \in WordRuns(cs) : SubSeq(cs, r[1], r[2]) \in forbidden

C14_FilterDecision ==
    out.op = "filter"
    => /\ (out.kind = "ValueError") <=> DenyListed(out.args)
       /\ out.kind \in {"ok", "ValueError"}
       /\ out.args = <<"c", "o", "s", "(">> => out.kind = "ok"

(* C14: the safety filter rejects an expression if and only if it holds   *)
(* the substring '__' or one of the deny-listed words as a whole word; an *)
(* expression in which a deny-listed word occurs only inside a longer     *)
(* identifier ('cos(x)') is accepted, and the filter has no side effect.  *)
C14_FilterIffDenyListed ==
    /\ []C14_FilterDecision
    /\ [][out'.op = "filter" => UNCHANGED <<params, symbols, steps, fn>>]_vars

\* the case of C14: the filter has accepted an expression in which a
\* deny-listed word stands inside a longer identifier
C14_Case ==
    /\ out.op = "filter"
    /\ out.kind = "ok"
    /\ HasForbiddenSubstring(out.args)

\* the other case of C14: the filter has rejected a whole deny-listed word
\* next to a bracket
C14_RejectedCase ==
    /\ out.op = "filter"
    /\ out.kind = "ValueError"
    /\ out.info = "contains forbidden keywords"
    /\ Len(out.args) > 2

\* what an index access answers in every state
C15_GetAnswersEntry ==
    out.op = "get"
    => /\ out.name \in DOMAIN params
          => (out.kind = "ok" /\ out.val = params[out.name])
       /\ out.name \notin DOMAIN params
          => (out.kind = "KeyError" /\ IsRaised(out.val))

(* C15: for every valid identifier n and every accepted value v,          *)
(* add_param(n, ..., v) followed by get(n) returns exactly v, unchanged;  *)
(* get of a name with no symbol-table entry fails with KeyError.          *)
C15_GetReturnsDeclaredValue ==
    /\ []C15_GetAnswersEntry
    /\ [][(/\ out.op = "add_param" /\ out.kind = "ok"
           /\ out'.op = "get" /\ out'.name = out.name)
          => (/\ out'.kind = "ok"
              /\ out'.val = steps[Len(steps)].value
              /\ steps[Len(steps)].type = "param"
              /\ steps[Len(steps)].name = out.name)]_vars

\* the case of C15: a quantity declared as a parameter has been read back
\* by index access
C15_Case ==
    /\ out.op = "get"
    /\ out.kind = "ok"
    /\ out.val = Qty(5, 1, UnitCm)
    /\ steps # <<>>
    /\ steps[Len(steps)] = ParamStep(out.name, "s", out.val, FALSE)

\* the other case of C15: index access to a name without an entry
C15_MissingCase ==
    /\ out.op = "get"
    /\ out.kind = "KeyError"
    /\ \E i \in StepIndices : steps[i].type = "eq" /\ steps[i].name = out.name

(* C16: in every reachable graph state, no two steps of kind Parameter or *)
(* Equation have the same name (only Check steps may share a name).       *)
C16_ParameterEquationNamesUnique ==
    \A i, j \in StepIndices :
        (/\ i # j
         /\ steps[i].type \in {"param", "eq"}
         /\ steps[j].type \in {"param", "eq"})
        => steps[i].name # steps[j].name

\* the case of C16: an equation has been accepted under the name of an
\* earlier equation
C16_Case ==
    /\ out.op = "add_equation"
    /\ out.kind = "ok"
    /\ Len(steps) > 1
    /\ steps[Len(steps)].type = "eq"
    /\ \E i \in 1..(Len(steps) - 1) :
          steps[i].type = "eq" /\ steps[i].name = steps[Len(steps)].name

\* the equation steps named n that the pass ending in out has executed
\* without failure
ExecutedEquations(o, n) ==
    { i \in StepIndices :
        /\ steps[i].type = "eq"
        /\ steps[i].name = n
        /\ (o.failed = 0 \/ i < o.failed) }

\* the largest member of a non-empty set of indices
Last(S) == CHOOSE i \in S : \A j \in S : j <= i

\* the part of C17 on declarations: add_param writes the entry at once,
\* add_equation and add_check leave the symbol table unchanged
C17_DeclarationsAndTable ==
    /\ (out'.op = "add_param" /\ out'.kind = "ok")
       => (/\ out'.name \in DOMAIN params'
           /\ params'[out'.name] = steps'[Len(steps')].value)
    /\ out'.op \in {"add_equation", "add_check"} => params' = params

(* C17 as stated: the symbol table is populated for a Parameter at        *)
(* declaration and for an Equation only after a successful evaluate()     *)
(* pass; add_equation and add_check leave it unchanged, Check steps never *)
(* write to it, and an Equation's name has an entry only if an evaluate() *)
(* pass that completed successfully has run since its declaration: in a   *)
(* graph of distinct names, a pass that fails gives no name an entry.     *)
C17_EntryOnlyAfterSuccessfulPass ==
    [][/\ C17_DeclarationsAndTable
       /\ (/\ out'.op = "evaluate" /\ out'.kind # "ok"
           /\ C16_ParameterEquationNamesUnique)
          => DOMAIN params' = DOMAIN params]_vars

\* every entry of the symbol table was written by a step of its name: a
\* Parameter, or an Equation that holds a cached result
C17_EntriesHaveWriters ==
    \A n \in DOMAIN params :
        \E i \in StepIndices :
            /\ steps[i].name = n
            /\ \/ steps[i].type = "param"
               \/ steps[i].type = "eq" /\ steps[i].result # None

\* a pass changes the entry of a name only to the result of the last
\* Equation step of that name it has executed without failure
C17_PassWritesExecutedEquations ==
    out'.op = "evaluate"
    => \A n \in DOMAIN params' :
          Entry(params, n) # params'[n]
          => /\ ExecutedEquations(out', n) # {}
             /\ params'[n] = steps'[Last(ExecutedEquations(out', n))].result

(* C17, amended: the symbol table is populated for a Parameter at         *)
(* declaration and for an Equation when evaluate() has executed that      *)
(* Equation step without failure, whether or not the pass then completes; *)
(* add_equation and add_check leave it unchanged and Check steps never    *)
(* write to it.                                                            *)
C17_EntryAfterExecutedStep ==
    /\ []C17_EntriesHaveWriters
    /\ [][C17_DeclarationsAndTable /\ C17_PassWritesExecutedEquations]_vars

\* the case of C17: a pass has failed at its second step, a graph of
\* distinct names, and the equation before it has its entry
C17_Case ==
    /\ out.op = "evaluate"
    /\ out.kind # "ok"
    /\ out.failed = 2
    /\ C16_ParameterEquationNamesUnique
    /\ steps[1].type = "eq"
    /\ steps[1].name \in DOMAIN params
    /\ params[steps[1].name] = steps[1].result
    /\ \E i \in StepIndices : steps[i].type = "check" /\ steps[i].result = None

\* a pass has just failed at an Equation step
EquationFailed ==
    /\ out.op = "evaluate"
    /\ out.failed # 0
    /\ steps[out.failed].type = "eq"

\* what invoking the failing step raises on the symbol table the failure
\* left behind
RawFailure ==
    _evaluate_raw_expression(steps[out.failed], steps, params).result

(* C18: for an Equation step, evaluate() maps the cause of failure to     *)
(* exactly one error kind: division by zero gives ZeroDivisionError, an   *)
(* incompatible-unit operation or conversion gives DimensionalityError,   *)
(* every other cause (compile error, missing name, other runtime error)  *)
(* gives RuntimeError carrying the original message.                      *)
C18_CauseDeterminesKind ==
    EquationFailed
    => /\ out.kind \in {"ZeroDivisionError", "DimensionalityError",
                        "RuntimeError"}
       /\ (out.info = "ZeroDivisionError") <=> (out.kind = "ZeroDivisionError")
       /\ (out.info = "DimensionalityError")
          <=> (out.kind = "DimensionalityError")
       /\ IsRaised(RawFailure) => out.info = RawFailure.kind
       /\ ~IsRaised(RawFailure) => out.info = "DimensionalityError"
       /\ (/\ steps[out.failed].expr = "10 / x"
           /\ Entry(params, "x") = Num(0, 1))
          => out.kind = "ZeroDivisionError"
       /\ (/\ steps[out.failed].expr = "x + 2"
           /\ Entry(params, "x") = Qty(5, 1, UnitCm))
          => out.kind = "DimensionalityError"
       /\ (\E n \in free_symbols(process_and_sympify(steps[out.failed].expr)) :
              ~IsUnitPlaceholder(n) /\ n \notin DOMAIN params
              /\ \A i \in StepIndices : steps[i].name # n)
          => (out.kind = "RuntimeError" /\ out.info = "KeyError")

\* the case of C18: a pass has failed on a division by a zero parameter
C18_Case ==
    /\ EquationFailed
    /\ out.kind = "ZeroDivisionError"
    /\ steps[out.failed].expr = "10 / x"
    /\ Entry(params, "x") = Num(0, 1)

\* other cases of C18: an incompatible conversion to the target unit, and
\* a missing name
C18_ConversionCase ==
    /\ EquationFailed
    /\ out.kind = "DimensionalityError"
    /\ ~IsRaised(RawFailure)

C18_MissingNameCase ==
    /\ EquationFailed
    /\ out.kind = "RuntimeError"
    /\ out.info = "KeyError"

(* C19: every error raised by evaluate() for a failing step (Equation or  *)
(* Check; division by zero, incompatible units, missing variable or any   *)
(* other runtime failure) identifies the failing step's name in its       *)
(* message.                                                                *)
C19_MessageNamesFailingStep ==
    (out.op = "evaluate" /\ out.failed # 0)
    => steps[out.failed].name \in out.msg

\* the case of C19: an Equation step has failed on incompatible units and
\* the message quotes nothing of the step
C19_Case ==
    /\ EquationFailed
    /\ out.kind = "DimensionalityError"
    /\ out.msg = {}

\* the other case of C19: a Check step has failed on a missing variable
\* and the message quotes its description and the variable
C19_CheckCase ==
    /\ out.op = "evaluate"
    /\ out.failed # 0
    /\ steps[out.failed].type = "check"
    /\ out.info = "KeyError"
    /\ out.msg = {steps[out.failed].desc, "y"}
    /\ steps[out.failed].name = "lambda"

\* the cases in which the message does name the step: division by zero and
\* the generic error of an Equation step
C19_NamedCase ==
    /\ EquationFailed
    /\ out.kind \in {"ZeroDivisionError", "RuntimeError"}
    /\ steps[out.failed].name \in out.msg

\* the Equation steps with a target unit that the pass ending in out has
\* executed without failure
ExecutedWithUnit ==
    { i \in StepIndices :
        /\ out.op = "evaluate"
        /\ steps[i].type = "eq"
        /\ steps[i].unit # NoneUnit
        /\ (out.failed = 0 \/ i < out.failed) }

\* v is a quantity in the target unit of step i
InTargetUnit(v, i) ==
    /\ v.kind = "qty"
    /\ v.unit = UnitNamed(steps[i].unit)

\* the body of the loop of evaluate run on step i in the present state
StepRun(i) == evaluate_step(steps[i], steps, params)

\* what executing step i stores, both in the symbol table and on the step,
\* is in the target unit; a step that fails stores nothing
C20_StepStoresTargetUnit(i) ==
    /\ StepRun(i).raised = ""
       => /\ InTargetUnit(StepRun(i).step.result, i)
          /\ StepRun(i).params[steps[i].name] = StepRun(i).step.result
    /\ StepRun(i).raised # ""
       => /\ StepRun(i).params = params
          /\ StepRun(i).step.result = steps[i].result

\* after a pass, every executed step with a target unit holds its value in
\* that unit, and the entry of its name is that value unless a later step
\* of the same name has been executed after it
C20_PassStoresTargetUnit ==
    \A i \in ExecutedWithUnit :
        /\ InTargetUnit(steps[i].result, i)
        /\ i = Last(ExecutedEquations(out, steps[i].name))
           => Entry(params, steps[i].name) = steps[i].result

(* C20: after evaluate() has successfully executed an Equation step that  *)
(* declares a target unit, the value stored in the symbol table under the *)
(* step's name and cached on the step is a quantity whose unit is exactly *)
(* the target unit: a quantity result is converted to it, a bare numeric  *)
(* result is wrapped in it; a result of incompatible dimension never gets *)
(* stored.                                                                 *)
C20_TargetUnitStored ==
    /\ C20_PassStoresTargetUnit
    /\ \A i \in StepIndices :
          (steps[i].type = "eq" /\ steps[i].unit # NoneUnit)
          => C20_StepStoresTargetUnit(i)

\* the case of C20: a quantity in cm has been converted to the target unit
\* m and stored
C20_Case ==
    /\ out.op = "evaluate"
    /\ \E i \in ExecutedWithUnit :
          /\ steps[i].expr = "x * u.cm"
          /\ steps[i].unit = "m"
          /\ Entry(params, "x") = Num(0, 1)
          /\ params[steps[i].name] = Qty(0, 1, UnitM)
          /\ steps[i].result = Qty(0, 1, UnitM)

\* the case of C20 for a bare number: 0 + 2 wrapped in m
C20_WrappedCase ==
    /\ out.op = "evaluate"
    /\ \E i \in ExecutedWithUnit :
          /\ steps[i].expr = "x + 2"
          /\ params[steps[i].name] = Qty(2, 1, UnitM)

\* the case of C20 for an incompatible result: cm * cm with target unit m
C20_IncompatibleCase ==
    /\ EquationFailed
    /\ out.kind = "DimensionalityError"
    /\ steps[out.failed].expr = "x * u.cm"
    /\ steps[out.failed].result = None
    /\ steps[out.failed].name \notin DOMAIN params

\* the case of C20 for two executed steps of one name with different
\* target units: each holds its own unit, the entry is that of the second
C20_SameNameCase ==
    /\ out.op = "evaluate"
    /\ \E i, j \in ExecutedWithUnit :
          /\ i < j
          /\ steps[i].name = steps[j].name
          /\ steps[i].unit # steps[j].unit
          /\ params[steps[i].name] = steps[j].result

\* what the wrapper must pass for a name the bulk input df supplies
InjectedValue(arg_name, df) ==
    IF /\ arg_name \in DOMAIN params
       /\ params[arg_name].kind = "qty"
       /\ df[arg_name].kind # "qty"
    THEN Val("qty", Mag(df[arg_name]), params[arg_name].unit, "")
    ELSE df[arg_name]

(* C21: unit injection in a lambdified function: a bulk-input value is    *)
(* multiplied by the unit of the graph parameter of the same name exactly *)
(* when that parameter is a dimensioned quantity and the supplied value   *)
(* is bare; a supplied value that is already a quantity, or whose         *)
(* parameter is bare or absent, is used unchanged.                         *)
C21_UnitInjectedOnce ==
    out.op = "call"
    => \A i \in 1..Len(fn.args_names) :
          fn.args_names[i] \in DOMAIN out.df
          => /\ out.args[i] = InjectedValue(fn.args_names[i], out.df)
             /\ (/\ Entry(params, fn.args_names[i]) = Qty(5, 1, UnitCm)
                 /\ out.df[fn.args_names[i]] = Num(10, 1))
                => out.args[i] = Qty(10, 1, UnitCm)
             /\ out.df[fn.args_names[i]] = Qty(10, 1, UnitM)
                => out.args[i] = Qty(10, 1, UnitM)

\* the case of C21: the parameter is 5 cm and the bulk input supplies 10
C21_Case ==
    /\ out.op = "call"
    /\ Entry(params, "y") = Qty(5, 1, UnitCm)
    /\ out.df = ("y" :> Num(10, 1))
    /\ out.args = <<Qty(10, 1, UnitCm)>>
    /\ out.kind = "ok"

\* the other cases of C21: a quantity supplied for a parameter in another
\* unit, and a bare value supplied for a bare or absent parameter
C21_QuantityCase ==
    /\ out.op = "call"
    /\ Entry(params, "y") = Qty(5, 1, UnitCm)
    /\ out.df = ("y" :> Qty(10, 1, UnitM))
    /\ out.args = <<Qty(10, 1, UnitM)>>

C21_BareCase ==
    /\ out.op = "call"
    /\ "y" \notin DOMAIN params
    /\ out.df = ("y" :> Num(10, 1))
    /\ out.args = <<Num(10, 1)>>

\* the elements of a symbol-table entry, a number counting as one element
ElementsOf(v) == IF v.kind = "arr" THEN v.elems ELSE <<v>>

\* x > y holds for every pair of elements of the entries of x and y, a
\* number being paired with every element of an array
EveryPairGreater ==
    \A i \in 1..Len(ElementsOf(params["x"])) :
        \A j \in 1..Len(ElementsOf(params["y"])) :
            (\/ params["x"].kind # "arr"
             \/ params["y"].kind # "arr"
             \/ i = j)
            => RGt(Mag(ElementsOf(params["x"])[i]),
                   Mag(ElementsOf(params["y"])[j]))

\* the Check steps that the pass ending in out has executed
ExecutedChecks ==
    { i \in StepIndices :
        /\ out.op = "evaluate"
        /\ steps[i].type = "check"
        /\ (out.failed = 0 \/ i < out.failed) }

(* C22: after evaluate() executes a Check step, the cached result is a    *)
(* single boolean: when the raw result is an array it is true if and only *)
(* if every element is true, otherwise it is the boolean coercion of the  *)
(* raw result; an explicit all(...) gives the same outcome as the         *)
(* implicit reduction.                                                     *)
C22_CheckReducesToAll ==
    \A i \in ExecutedChecks :
        /\ steps[i].result.kind = "bool"
        /\ steps[i].result \in {Bool(TRUE), Bool(FALSE)}
        /\ steps[i].expr \in {"x > y", "all(x > y)"}
           => steps[i].result = Bool(EveryPairGreater)
        /\ \A j \in ExecutedChecks : steps[j].result = steps[i].result

\* the case of C22: an implicit reduction over two arrays of which only
\* the first pair passes
C22_Case ==
    /\ out.op = "evaluate"
    /\ out.kind = "ok"
    /\ Entry(params, "x") = Arr(<<Num(10, 1), Num(20, 1)>>)
    /\ Entry(params, "y") = Arr(<<Num(5, 1), Num(25, 1)>>)
    /\ \E i \in ExecutedChecks :
          steps[i].expr = "x > y" /\ steps[i].result = Bool(FALSE)

\* the other cases of C22: every pair passes, with the explicit all(...)
C22_ExplicitCase ==
    /\ out.op = "evaluate"
    /\ out.kind = "ok"
    /\ Entry(params, "x") = Arr(<<Num(10, 1), Num(20, 1)>>)
    /\ Entry(params, "y") = Arr(<<Num(5, 1), Num(15, 1)>>)
    /\ \E i \in ExecutedChecks :
          steps[i].expr = "all(x > y)" /\ steps[i].result = Bool(TRUE)

\* valid_symbols of _compile_equation: the keys of the symbol table and the
\* names of the steps
valid_symbols == DOMAIN params \cup { steps[i].name : i \in StepIndices }

\* the symbols of the expression of step i that are neither valid symbols
\* nor unit references
UnknownSymbols(i) ==
    IF ParseFails(process_and_sympify(steps[i].expr)) THEN {}
    ELSE { n \in free_symbols(process_and_sympify(steps[i].expr)) :
             ~IsUnitPlaceholder(n) /\ n \notin valid_symbols }

(* C23: compiling an expression that uses a symbol or a function outside  *)
(* the known set (current parameters, declared step names, the fixed      *)
(* vocabulary and u.<unit> references) raises a compilation failure that  *)
(* names the expression and the owning step; no callable is produced for  *)
(* such an expression.                                                     *)
C23_UnknownSymbolFailsCompilation ==
    /\ (/\ out.op = "lambdify"
        /\ FindEquation(steps, out.name) # 0
        /\ UnknownSymbols(FindEquation(steps, out.name)) # {})
       => out.kind = "ValueError"
    /\ \A i \in StepIndices :
          (steps[i].type \in {"eq", "check"} /\ UnknownSymbols(i) # {})
          => steps[i].compiled_func = NotCompiled

\* the case of C23: lambdify_equation has returned a function for an
\* equation whose expression uses an undeclared name
C23_Case ==
    /\ out.op = "lambdify"
    /\ out.kind = "ok"
    /\ FindEquation(steps, out.name) # 0
    /\ UnknownSymbols(FindEquation(steps, out.name)) # {}
    /\ fn.name = out.name
    /\ \E i \in 1..Len(fn.args_names) :
          fn.args_names[i] \in UnknownSymbols(FindEquation(steps, out.name))

\* the case of C23 in evaluate(): the step has been compiled and the pass
\* has failed on the missing variable
C23_EvaluateCase ==
    /\ out.op = "evaluate"
    /\ out.failed # 0
    /\ out.info = "KeyError"
    /\ UnknownSymbols(out.failed) # {}
    /\ steps[out.failed].compiled_func # NotCompiled

\* the strings held by the lines of the last report
ReportShown == UNION { out.lines[k].shown : k \in DOMAIN out.lines }

\* the steps declared with hidden=True
HiddenSteps == { i \in DOMAIN steps : steps[i].hidden }

\* C24: in the output of report(), whatever the graph and the template,
\* the display symbol of a hidden step occurs nowhere, neither in a row of
\* its own nor in the rendered expression of a visible equation or check
\* that refers to the hidden step.
C24_HiddenSymbolAbsent ==
    out.op = "report" =>
        \A i \in HiddenSteps : steps[i].symbol \notin ReportShown

\* C24 case: a report of a graph in which a visible equation or check
\* refers to a hidden step and the row of that visible step was rendered.
C24_Case ==
    /\ out.op = "report"
    /\ \E i \in HiddenSteps : \E k \in DOMAIN out.lines :
          /\ out.lines[k].kind = "row"
          /\ steps[out.lines[k].step].type \in {"eq", "check"}
          /\ steps[i].name
                \in free_symbols(process_and_sympify(
                                     steps[out.lines[k].step].expr))

\* the operations that only read the graph
ReadOnlyOps == {"report", "lambdify", "call"}

\* C25: report(), lambdify_equation(name) and every call of a returned
\* function leave the step list, with each step's cached result and
\* compiled artifact, the symbol table and the display-symbol map as they
\* were; report() also leaves the formatter's template as it was when row
\* overrides are passed.
C25_ReadOnlyOperationsChangeNothing ==
    [][out'.op \in ReadOnlyOps =>
          /\ steps' = steps
          /\ params' = params
          /\ symbols' = symbols
          /\ out'.op = "report" => template' = template]_vars

\* C25 case: a report with a row override has been made of a graph that
\* holds a cached result and a compiled artifact, after a function was
\* returned by lambdify_equation.
C25_Case ==
    /\ out.op = "report"
    /\ DOMAIN out.rows # {}
    /\ fn # NoFn
    /\ \E i \in DOMAIN steps :
          /\ steps[i].type = "eq"
          /\ steps[i].compiled_func # NotCompiled
          /\ steps[i].result # None

\* the environment open after the first k lines of a report, read from its
\* markers alone
RECURSIVE OpenEnv(_, _)
OpenEnv(lines, k) ==
    IF k = 0 THEN NoneEnv
    ELSE IF lines[k].kind = "begin" THEN lines[k].env
    ELSE IF lines[k].kind = "end" THEN NoneEnv
    ELSE OpenEnv(lines, k - 1)

\* every \begin is written when no environment is open, every \end closes
\* the environment that is open, and none is open at the end
MarkersBalanced(lines) ==
    /\ \A k \in DOMAIN lines :
          /\ lines[k].kind = "begin" => OpenEnv(lines, k - 1) = NoneEnv
          /\ lines[k].kind = "end"
                => /\ OpenEnv(lines, k - 1) # NoneEnv
                   /\ OpenEnv(lines, k - 1) = lines[k].env
    /\ OpenEnv(lines, Len(lines)) = NoneEnv

\* the environment the report was asked to put a step of this type in
EnvironmentAsked(step_type) ==
    IF out.env # NoneEnv THEN out.env
    ELSE IF step_type \in DOMAIN template.environments
    THEN template.environments[step_type]
    ELSE "align*"

\* C30: in every report the environment markers are balanced and do not
\* overlap, every visible step has its row inside the environment required
\* for it (the template's environment of its type when environment is
\* None), and with an environment override every marker names the override
\* and no other environment.
C30_EnvironmentsBalanced ==
    out.op = "report" =>
        /\ MarkersBalanced(out.lines)
        /\ \A i \in DOMAIN steps : ~steps[i].hidden =>
              \E k \in DOMAIN out.lines :
                 /\ out.lines[k].kind \in {"row", "error"}
                 /\ out.lines[k].step = i
        /\ \A k \in DOMAIN out.lines :
              out.lines[k].kind \in {"row", "error"} =>
                 OpenEnv(out.lines, k - 1)
                    = EnvironmentAsked(steps[out.lines[k].step].type)
        /\ out.env # NoneEnv =>
              \A k \in DOMAIN out.lines :
                 out.lines[k].kind \in {"begin", "end"}
                    => out.lines[k].env = out.env

\* C30 case: a report without override whose rows lie in two different
\* environments, one closed before the other is opened.
C30_Case ==
    /\ out.op = "report"
    /\ out.env = NoneEnv
    /\ \E j, k \in DOMAIN out.lines :
          /\ j < k
          /\ out.lines[j].kind = "end"
          /\ out.lines[k].kind = "begin"
          /\ out.lines[j].env # out.lines[k].env

\* C30 case: a report with an override that is not an environment of the
\* template, of a graph with visible steps of two types.
C30_OverrideCase ==
    /\ out.op = "report"
    /\ out.env # NoneEnv
    /\ \A t \in DOMAIN template.environments :
          template.environments[t] # out.env
    /\ \E j, k \in DOMAIN out.lines :
          /\ out.lines[j].kind = "row"
          /\ out.lines[k].kind = "row"
          /\ steps[out.lines[j].step].type # steps[out.lines[k].step].type

\* the cached results of the steps
CachedResults(graph_steps) ==
    [i \in DOMAIN graph_steps |-> graph_steps[i].result]

\* C26: an evaluate() that directly follows an evaluate(), no declaration
\* in between, leaves the symbol table and the cached result of every step
\* as the first one left them.
C26_EvaluateIdempotent ==
    [][(out.op = "evaluate" /\ out'.op = "evaluate") =>
          /\ params' = params
          /\ CachedResults(steps') = CachedResults(steps)]_vars

\* C26 case: an evaluate() has run to its end on a graph with an equation
\* and a check, so that a second one recomputes both.
C26_Case ==
    /\ out.op = "evaluate"
    /\ out.kind = "ok"
    /\ \E i, j \in DOMAIN steps :
          /\ steps[i].type = "eq"
          /\ steps[j].type = "check"

\* the names of the Parameter and Equation steps are pairwise different
NamesUnique ==
    \A i, j \in DOMAIN steps :
        (/\ i # j
         /\ steps[i].type \in {"param", "eq"}
         /\ steps[j].type \in {"param", "eq"}) => steps[i].name # steps[j].name

\* C26 case: a second evaluate() has changed the symbol table, on a graph
\* in which an equation has the name of a parameter.
C26_DuplicateNameCase ==
    /\ out.op = "evaluate"
    /\ out.kind = "ok"
    /\ ~NamesUnique
    /\ \E i \in DOMAIN steps :
          /\ steps[i].type = "eq"
          /\ steps[i].result # None
          /\ \E j \in DOMAIN steps :
                /\ steps[j].type = "param"
                /\ steps[j].name = steps[i].name
                /\ steps[i].result.n > steps[j].value.n + 1

\* the characters of an argument name and their ASCII codes
NameChars(s) ==
    CASE s = "UNIT_cm" -> <<"U", "N", "I", "T", "_", "c", "m">>
      [] s = "UNIT_m"  -> <<"U", "N", "I", "T", "_", "m">>
      [] OTHER         -> Chars(s)

Ord(c) ==
    CASE c = "I" -> 73 [] c = "N" -> 78 [] c = "T" -> 84 [] c = "U" -> 85
      [] c = "_" -> 95 [] c = "c" -> 99 [] c = "m" -> 109
      [] c = "x" -> 120 [] c = "y" -> 121 [] c = "z" -> 122

\* a < b in the order of Python strings
RECURSIVE SeqLess(_, _)
SeqLess(a, b) ==
    IF b = <<>> THEN FALSE
    ELSE IF a = <<>> THEN TRUE
    ELSE IF Ord(Head(a)) # Ord(Head(b)) THEN Ord(Head(a)) < Ord(Head(b))
    ELSE SeqLess(Tail(a), Tail(b))

\* a list of names in strictly ascending string order
Ascending(names) ==
    \A i, j \in DOMAIN names :
        i < j => SeqLess(NameChars(names[i]), NameChars(names[j]))

\* a compiled function and its list of names agree and are sorted
ArgsSorted(compiled_func, args_names) ==
    /\ Ascending(args_names)
    /\ compiled_func.formals = args_names

\* the expression of the compiled function of step i, each name bound to
\* the value evaluate() resolves for that name
EvaluateOwn(i) ==
    EvalTree(StepRun(i).step.compiled_func.expr,
             [n \in {StepRun(i).step.args_names[k] :
                       k \in DOMAIN StepRun(i).step.args_names} |->
                 get_arg_value(n, params)])

\* the expression of the lambdified function, each name bound to the value
\* the wrapper resolves for that name from the bulk input of the last call
CallOwn ==
    EvalTree(fn.compiled_func.expr,
             [n \in {fn.args_names[k] : k \in DOMAIN fn.args_names} |->
                 wrapper_arg(n, out.df, params)])

\* C27: the list of free-variable names of every compiled function is in
\* ascending string order without duplicates and is the list of its
\* formals; evaluate() and the wrapper pass the values in that order, so
\* the function computes its expression with every name bound to the value
\* resolved for that name.
C27_ArgumentsSortedAndPositional ==
    /\ \A i \in StepIndices :
          steps[i].compiled_func # NotCompiled
             => ArgsSorted(steps[i].compiled_func, steps[i].args_names)
    /\ fn # NoFn => ArgsSorted(fn.compiled_func, fn.args_names)
    /\ \A i \in StepIndices :
          (steps[i].type \in {"eq", "check"} /\ StepRun(i).raised = "")
             => /\ ArgsSorted(StepRun(i).step.compiled_func,
                              StepRun(i).step.args_names)
                /\ StepRun(i).step.result
                      = IF steps[i].type = "eq"
                        THEN evaluate_convert(EvaluateOwn(i), steps[i].unit)
                        ELSE check_result(EvaluateOwn(i))
    /\ (out.op = "call" /\ FirstRaised(out.args) = None)
          => /\ \A k \in DOMAIN out.args :
                   out.args[k] = wrapper_arg(fn.args_names[k], out.df, params)
             /\ out.raw = CallOwn

\* C27 case: a function of two names, written in the expression in the
\* other order, has been called with different values for the two, on a
\* graph where evaluate() has compiled a step of two names.
C27_Case ==
    /\ out.op = "call"
    /\ FirstRaised(out.args) = None
    /\ out.raw = Val("num", [n |-> 4, d |-> 1], NoUnits, "")
    /\ fn.args_names = <<"x", "y">>
    /\ fn.compiled_func.expr = Bin("div", Sym("y"), Sym("x"))
    /\ out.args[1] # out.args[2]
    /\ \E i \in StepIndices :
          /\ Len(steps[i].args_names) = 2
          /\ steps[i].result # None

\* the equation that the last lambdify_equation was asked for
Asked == FindEquation(steps, out.name)

\* lambdify_equation has just failed with the depth failure
DepthFailure ==
    /\ out.op = "lambdify"
    /\ out.kind = "ValueError"
    /\ out.info = "RecursionError"

\* C28: the depth failure occurs only when the expression still refers to
\* an Equation after 20 substitution rounds; an acyclic chain whose
\* expansion reaches its fixed point within 20 rounds, 20 included, is
\* compiled.
C28_DepthFailureOnlyWhenExceeded ==
    DepthFailure => EquationSyms(Expansion(Asked).expr, steps) # {}

\* C28 case: lambdify_equation on the head of an acyclic chain whose
\* expansion takes exactly 20 rounds and then refers to no Equation.
C28_Case ==
    /\ out.op = "lambdify"
    /\ Asked # 0
    /\ Expansion(Asked).depth = max_depth
    /\ Expansion(Asked).raised = ""
    /\ EquationSyms(Expansion(Asked).expr, steps) = {}

\* C28 case: a chain expanded in 19 rounds has been compiled.
C28_WithinCase ==
    /\ out.op = "lambdify"
    /\ out.kind = "ok"
    /\ Expansion(Asked).depth = max_depth - 1

\* C28 case: a chain that needs 21 rounds has failed with the depth failure.
C28_ExceededCase ==
    /\ DepthFailure
    /\ EquationSyms(Expansion(Asked).expr, steps) # {}

\* the compiled artifact of a step is empty
Uncompiled(step) ==
    /\ step.compiled_func = NotCompiled
    /\ step.args_names = <<>>

\* the compiled artifact of a step is the compilation of its own expression
\* with the sorted list of its free variables
CompiledFromOwn(step) ==
    /\ step.compiled_func.expr = process_and_sympify(step.expr)
    /\ step.args_names = step.compiled_func.formals
    /\ {step.args_names[k] : k \in DOMAIN step.args_names}
          = free_symbols(process_and_sympify(step.expr))

\* C29: the compiled artifact of an Equation or Check step is empty after
\* the declaration; the first evaluate() that reaches the step sets it,
\* with the list of free variables, when the expression compiles and
\* leaves it empty when the compilation fails; once set it is never
\* changed, by a later evaluate() or by anything else; lambdify_equation
\* and the functions it returns never set or replace it.
C29_CompiledArtifactLifecycle ==
    [][/\ \A i \in DOMAIN steps' \ DOMAIN steps : Uncompiled(steps'[i])
       /\ \A i \in DOMAIN steps :
             /\ ~Uncompiled(steps[i])
                => /\ steps'[i].compiled_func = steps[i].compiled_func
                   /\ steps'[i].args_names = steps[i].args_names
             /\ (Uncompiled(steps[i]) /\ ~Uncompiled(steps'[i]))
                => /\ out'.op = "evaluate"
                   /\ steps[i].type \in {"eq", "check"}
                   /\ CompiledFromOwn(steps'[i])
             /\ (/\ out'.op = "evaluate"
                 /\ steps[i].type \in {"eq", "check"}
                 /\ (out'.failed = 0 \/ i <= out'.failed))
                => (Uncompiled(steps'[i])
                       <=> ParseFails(process_and_sympify(steps[i].expr)))
       /\ out'.op \in {"lambdify", "call"} => steps' = steps]_vars

\* C29 case: an evaluate() has compiled one step and has failed on the
\* compilation of another, which it left empty, after lambdify_equation
\* returned a function.
C29_Case ==
    /\ out.op = "evaluate"
    /\ out.failed # 0
    /\ ParseFails(process_and_sympify(steps[out.failed].expr))
    /\ Uncompiled(steps[out.failed])
    /\ \E i \in DOMAIN steps : ~Uncompiled(steps[i])

\* C29 case: a step whose evaluation has failed on a missing name holds the
\* compiled artifact all the same.
C29_FailedEvaluationCase ==
    /\ out.op = "evaluate"
    /\ out.info = "KeyError"
    /\ out.failed # 0
    /\ ~Uncompiled(steps[out.failed])

====
